---- MODULE Spec2Model ----
(***************************************************************************)
(* Model of the sequential content-creation pipeline of the extension:     *)
(* SequentialOrchestrationService / AutomatedOrchestrationService          *)
(* (executeWorkflow) and ChatParticipantService (executeSequentialWorkflow)*)
(* together with the JSON extraction they apply to the oracle's replies.   *)
(*                                                                         *)
(* An oracle reply is a sequence of tokens.  A token is a record           *)
(* [t, k, v]: t is the kind of text, k/v the key and value of a            *)
(* "key": value member of a JSON object.                                   *)
(*   fence  : the text ```json          close : the text ```               *)
(*   lb     : {  (inside an object: "key": { )        rb : }               *)
(*   ws     : a newline                 prose : text that is not JSON      *)
(*   member : "k": v                                                       *)
(***************************************************************************)
EXTENDS Integers, Sequences, FiniteSets, TLC

VARIABLES
  variant,        \* which orchestrator runs: "sequential" or "chat"
  cwdIsRoot,      \* the process working directory is the workspace root
  hasWorkspace,   \* vscode.workspace.workspaceFolders is not empty
  promptsLoaded,  \* PromptService found the orchestration templates
  pc,             \* the await point the run is suspended at
  files,          \* file path -> content (Absent when there is no file)
  dirs,           \* the directories that exist
  result,         \* the OrchestrationResult under construction / returned
  locals,         \* the typed data handed from step to step
  calls,          \* the oracle calls issued so far (step ids, in order)
  rendered,       \* the prompts rendered so far (in order)
  progress,       \* the progress callbacks delivered so far
  failedAt,       \* where the exception that ended the run was thrown
  cancelled,      \* token.isCancellationRequested of the chat request behind the run
  writers,        \* concurrent runs at their write: where each is in fs.writeFile
  processedContents, \* CopilotIntegrationService: the instance field of that name
  requests,       \* CopilotIntegrationService: the chat queries opened so far
  input,          \* a function applied on its own: what it is given
  output,         \* a function applied on its own: what it returned
  waiting,        \* the oracle call the run awaits, and for how many ticks so far
  sink            \* the stage at which the caller's progress callback throws ("" for none)

vars == <<variant, cwdIsRoot, hasWorkspace, promptsLoaded, pc, files, dirs, result,
          locals, calls, rendered, progress, failedAt, cancelled, writers,
          processedContents, requests, input, output, waiting, sink>>

\* ------------------------------------------------------------------ bounds
MaxLen == 5
\* how many ticks a silent oracle is followed for
MaxWait == 2

\* ------------------------------------------------------------------ values
Undefined == "undefined"
Null == "null"

Keys == {"selectedDirectory", "action", "targetFile", "patternId",
         "content", "filename", "error"}

Tok(t, k, v) == [t |-> t, k |-> k, v |-> v]
Fence == Tok("fence", "", "")
Close == Tok("close", "", "")
LB == Tok("lb", "", "")
RB == Tok("rb", "", "")
WS == Tok("ws", "", "")
Prose == Tok("prose", "", "")
Member(k, v) == Tok("member", k, v)
\* a member whose string value holds a ```json ... ``` block of its own
Block(k, v) == Tok("block", k, v)

EmptyObject == [k \in Keys |-> Undefined]

\* ------------------------------------------------------- string helpers
Max(S) == CHOOSE x \in S : \A y \in S : y <= x
Min(S) == CHOOSE x \in S : \A y \in S : x <= y

\* String.prototype.trim / the \s* of the regular expressions
Trim(s) ==
  LET solid == {i \in 1..Len(s) : s[i].t # "ws"}
  IN IF solid = {} THEN <<>> ELSE SubSeq(s, Min(solid), Max(solid))

\* nesting depth after the first i tokens
Depth(s, i) ==
  Cardinality({j \in 1..i : s[j].t = "lb"}) - Cardinality({j \in 1..i : s[j].t = "rb"})

\* the text is one JSON object (the grammar JSON.parse accepts, on tokens)
IsJsonObject(s) ==
  /\ Len(s) >= 2
  /\ s[1].t = "lb"
  /\ s[Len(s)].t = "rb"
  /\ \A i \in 1..Len(s) : s[i].t \in {"lb", "rb", "ws", "member", "block"}
  /\ \A i \in 1..(Len(s) - 1) : Depth(s, i) >= 1
  /\ Depth(s, Len(s)) = 0

\* the object JSON.parse builds: top-level members, a repeated key keeps the last
member(s, k) ==
  LET idx == {i \in 1..Len(s) : s[i].t \in {"member", "block"} /\ s[i].k = k
                                  /\ Depth(s, i) = 1}
  IN IF idx = {} THEN Undefined ELSE s[Max(idx)].v

ObjectOf(s) == [k \in Keys |-> member(s, k)]

SyntaxError == <<"SyntaxError: Unexpected token">>

\* JSON.parse(text): a value, or a thrown SyntaxError
JSONparse(s) ==
  LET text == Trim(s)
  IN IF IsJsonObject(text)
     THEN [ok |-> TRUE, value |-> ObjectOf(text), error |-> <<>>]
     ELSE [ok |-> FALSE, value |-> EmptyObject, error |-> SyntaxError]

Thrown(msg) == [ok |-> FALSE, value |-> EmptyObject, error |-> msg]

\* response.match(/```json\s*([\s\S]*?)\s*```/): the captured group. The
\* expression knows nothing of JSON strings: a block inside a string value
\* opens and closes a match like any other, and what it captures there is the
\* text of the block, or the text up to it with the start of the member.
FenceMatch(s) ==
  LET opens == {i \in 1..Len(s) : s[i].t \in {"fence", "block"}}
      i == Min(opens)
      closes == {j \in (i + 1)..Len(s) : s[j].t \in {"fence", "close", "block"}}
      j == Min(closes)
  IN IF opens = {} THEN [found |-> FALSE, group |-> <<>>]
     ELSE IF s[i].t = "block" THEN [found |-> TRUE, group |-> <<Prose>>]
     ELSE IF closes = {} THEN [found |-> FALSE, group |-> <<>>]
     ELSE IF s[j].t = "block"
     THEN [found |-> TRUE, group |-> Trim(Append(SubSeq(s, i + 1, j - 1), Prose))]
     ELSE [found |-> TRUE, group |-> Trim(SubSeq(s, i + 1, j - 1))]

\* response.match(/\{[\s\S]*\}/): greedy, first { to last }
ObjectMatch(s) ==
  LET lbs == {i \in 1..Len(s) : s[i].t = "lb"}
      rbs == {j \in 1..Len(s) : s[j].t = "rb" /\ lbs # {} /\ j > Min(lbs)}
  IN IF lbs = {} \/ rbs = {} THEN [found |-> FALSE, group |-> <<>>]
     ELSE [found |-> TRUE, group |-> SubSeq(s, Min(lbs), Max(rbs))]

CouldNotParse == <<"Could not parse JSON from response">>

\* SequentialOrchestrationService.parseJsonResponse (the Automated one is the same)
parseJsonResponse(response) ==
  LET jsonMatch == FenceMatch(response)
      objectMatch == ObjectMatch(response)
  IN IF jsonMatch.found THEN JSONparse(jsonMatch.group)
     ELSE IF JSONparse(response).ok THEN JSONparse(response)
     ELSE IF objectMatch.found THEN JSONparse(objectMatch.group)
     ELSE Thrown(CouldNotParse)

\* responseText.match(/```json\n([\s\S]*?)\n```/): group 1 and the whole match
FenceMatchNL(s) ==
  LET cand == {p \in (1..Len(s)) \X (1..Len(s)) :
                 /\ s[p[1]].t = "fence"
                 /\ p[1] + 1 <= Len(s) /\ s[p[1] + 1].t = "ws"
                 /\ p[2] >= p[1] + 2 /\ p[2] + 1 <= Len(s)
                 /\ s[p[2]].t = "ws"
                 /\ s[p[2] + 1].t \in {"fence", "close"}}
      i == Min({p[1] : p \in cand})
      j == Min({p[2] : p \in {q \in cand : q[1] = i}})
  IN IF cand = {} THEN [found |-> FALSE, group |-> <<>>, whole |-> <<>>]
     ELSE [found |-> TRUE, group |-> SubSeq(s, i + 2, j - 1),
           whole |-> SubSeq(s, i, j + 1)]

\* ChatParticipantService.extractJSON
extractJSON(responseText) ==
  LET fenced == FenceMatchNL(responseText)
      braces == ObjectMatch(responseText)
      jsonText == IF fenced.found
                  THEN (IF fenced.group # <<>> THEN fenced.group ELSE fenced.whole)
                  ELSE braces.group
      parsed == JSONparse(jsonText)
  IN IF ~fenced.found /\ ~braces.found
     THEN Thrown(<<"Invalid JSON response: ", "No JSON found in response">>)
     ELSE IF parsed.ok THEN parsed
     ELSE Thrown(<<"Invalid JSON response: ">> \o parsed.error)

\* ---------------------------------------------------------- the filesystem
Absent == "ABSENT"
\* a relative directory that leaves the directory it is resolved against
Escaping == {"../outside"}
DirNames == {"docs", "newdir"} \cup Escaping
FileOrder == <<"a.md", "b.md">>
FileNames == {FileOrder[i] : i \in 1..Len(FileOrder)}
Bases == {"root", "cwd"}

InitFiles ==
  [p \in Bases \X DirNames \X FileNames |->
     IF p = <<"root", "docs", "a.md">> THEN "old" ELSE Absent]
InitDirs == {<<"root", "docs">>}

\* a relative path is resolved against the process working directory
Cwd(isRoot) == IF isRoot THEN "root" ELSE "cwd"

\* path.join of relative segments is a relative path: the first component of a
\* path is the base it is anchored at, Relative when it has none
Relative == "."
join(directoryPath, filename) == <<Relative, directoryPath, filename>>

\* the file a path names: a relative path is resolved against the working directory
resolve(filePath, isRoot) ==
  IF filePath[1] = Relative THEN <<Cwd(isRoot), filePath[2], filePath[3]>> ELSE filePath

IsString(v) == v \notin {Undefined, Null}

TypeError == <<"TypeError: argument must be of type string">>

\* a readFile that accepts any path and reads an empty text where nothing is
readAnyPath(fs, base, dir, name) ==
  [threw |-> FALSE, error |-> <<>>,
   text |-> IF <<base, dir, name>> \in DOMAIN fs.files /\ fs.files[<<base, dir, name>>] # Absent
            THEN fs.files[<<base, dir, name>>] ELSE ""]

\* fs.promises.readFile(path.join(dir, name), 'utf-8')
readFile(fs, base, dir, name) ==
  IF ~IsString(dir) \/ ~IsString(name) THEN [threw |-> TRUE, error |-> TypeError, text |-> ""]
  ELSE IF name = "" THEN
       [threw |-> TRUE, text |-> "",
        error |-> IF <<base, dir>> \in fs.dirs THEN <<"EISDIR: illegal operation on a directory">>
                  ELSE <<"ENOENT: no such file or directory">>]
  ELSE IF <<base, dir, name>> \notin DOMAIN fs.files \/ fs.files[<<base, dir, name>>] = Absent
       THEN [threw |-> TRUE, error |-> <<"ENOENT: no such file or directory">>, text |-> ""]
  ELSE [threw |-> FALSE, error |-> <<>>, text |-> fs.files[<<base, dir, name>>]]

\* the names fs.readdir(dir) returns, in directory order
readdir(fs, base, dir) ==
  SelectSeq(FileOrder, LAMBDA n : fs.files[<<base, dir, n>>] # Absent)

\* fs.promises.writeFile(path, data, 'utf-8'): the data is validated before the file is opened
writeFile(fs, base, dir, name, data) ==
  IF ~IsString(data) THEN [threw |-> TRUE, error |-> TypeError, fs |-> fs]
  ELSE IF name = "" THEN
       [threw |-> TRUE, error |-> <<"EISDIR: illegal operation on a directory">>, fs |-> fs]
  ELSE IF <<base, dir>> \notin fs.dirs THEN
       [threw |-> TRUE, error |-> <<"ENOENT: no such file or directory">>, fs |-> fs]
  ELSE [threw |-> FALSE, error |-> <<>>,
        fs |-> [fs EXCEPT !.files[<<base, dir, name>>] = data]]

\* fs.promises.mkdir(dir, { recursive: true })
mkdir(fs, base, dir) == [fs EXCEPT !.dirs = @ \cup {<<base, dir>>}]

\* runs of the workflow that are in flight in the extension host at once
MaxRuns == 2
Runs == 1..MaxRuns

NoWriters == [r \in Runs |-> [at |-> "none", name |-> "", data |-> ""]]

\* ------------------------------------------------------------ the oracle
\* The reply to a prompt is the environment's: sendToCopilot hands the prompt to
\* Copilot Chat and stands in for its answer with Placeholder, the chat
\* participant reads it from request.model.sendRequest.
Placeholder == <<Member("error", "Manual intervention required")>>

Bare(p) == <<LB>> \o p \o <<RB>>
Fenced(p) == <<Prose, Fence, WS, LB>> \o p \o <<RB, WS, Close>>
Garbage == <<Prose>>

Wrapped(payloads) == {Bare(p) : p \in payloads} \cup {Fenced(p) : p \in payloads} \cup {Garbage}

Optional(k, values) == {<<>>} \cup {<<Member(k, v)>> : v \in values}

OrPlaceholder(payloads) == (payloads \ {<<>>}) \cup {Placeholder}

DirectoryPayloads == OrPlaceholder(Optional("selectedDirectory", DirNames))

StrategyPayloads ==
  OrPlaceholder({a \o f : a \in Optional("action", {"CREATE", "UPDATE", "create"}),
                          f \in Optional("targetFile", {Null, "", "a.md", "b.md"})})

Catalog == {"technical-guide", "api-docs"}

\* requiredSections of the default patterns
requiredSections(patternId) ==
  IF patternId = "technical-guide"
  THEN {"Introduction", "Prerequisites", "Implementation", "Best Practices", "Related Resources"}
  ELSE {"Overview", "Authentication", "Endpoints", "Examples", "Error Handling"}

Line(heading, text) == [heading |-> heading, text |-> text]

\* the markdown the oracle can return as content, line by line: "guide" has a
\* heading for every section of the technical guide, "new" has none
Markdown(content) ==
  IF content = "guide"
  THEN <<Line(TRUE, "Introduction"), Line(FALSE, "text"), Line(TRUE, "Prerequisites"),
         Line(TRUE, "Implementation"), Line(TRUE, "Best Practices"),
         Line(TRUE, "Related Resources")>>
  ELSE <<Line(FALSE, "text")>>

\* extractHeadings: the titles of the lines that match /^#+\s+(.+)$/
extractHeadings(content) ==
  {Markdown(content)[i].text : i \in {j \in 1..Len(Markdown(content)) : Markdown(content)[j].heading}}

\* validateContentAgainstPattern: the required sections no heading names
missingRequired(content, patternId) ==
  {section \in requiredSections(patternId) : section \notin extractHeadings(content)}

PatternPayloads == OrPlaceholder(Optional("patternId", {"technical-guide", "overview"}))

GenerationPayloads ==
  OrPlaceholder({c \o f : c \in Optional("content", {"new", "guide"}),
                          f \in Optional("filename", FileNames)})

Answer(text) == [threw |-> FALSE, error |-> <<>>, text |-> text]
TransportFailure == [threw |-> TRUE, error |-> <<"chat request failed">>, text |-> <<>>]

Replies(payloads) == {Answer(t) : t \in Wrapped(payloads)} \cup {TransportFailure}

\* request.model.sendRequest(messages, {}, token): a request whose token is
\* cancelled is rejected by the language model API
Canceled == [threw |-> TRUE, error |-> <<"Canceled">>, text |-> <<>>]

sendRequest(payloads, token) == IF token THEN {Canceled} ELSE Replies(payloads)

\* ------------------------------------------------------ results of steps
StepIds == {"directorySelection", "contentStrategy", "patternSelection", "contentGeneration"}

\* what a prompt says about existing content: a fixed text, or a list of files
Existing(text, list) == [text |-> text, list |-> list]
NoExisting == Existing("", <<>>)

NoPrompt == [template |-> "", dir |-> "", existing |-> NoExisting, target |-> "", pattern |-> ""]

Prompt(template, dir, existing, target, pattern) ==
  [template |-> template, dir |-> dir, existing |-> existing, target |-> target,
   pattern |-> pattern]

NoStep ==
  [present |-> FALSE, success |-> FALSE, hasData |-> FALSE, data |-> EmptyObject,
   error |-> <<>>, prompt |-> NoPrompt, response |-> <<>>]

\* { success: true, data, prompt, response }
stepSucceeded(data, prompt, response) ==
  [present |-> TRUE, success |-> TRUE, hasData |-> TRUE, data |-> data,
   error |-> <<>>, prompt |-> prompt, response |-> response]

\* { success: false, error, prompt, response }
stepFailedWith(error, prompt, response) ==
  [present |-> TRUE, success |-> FALSE, hasData |-> FALSE, data |-> EmptyObject,
   error |-> error, prompt |-> prompt, response |-> response]

NoSteps == [s \in StepIds |-> NoStep]

NoPath == <<>>

InitResult ==
  [success |-> FALSE, action |-> "CREATED", filePath |-> NoPath, steps |-> NoSteps,
   error |-> <<>>]

InitLocals == [directory |-> EmptyObject, strategy |-> EmptyObject,
               pattern |-> EmptyObject, existing |-> NoExisting]

\* ------------------------------------- SequentialOrchestrationService
MaxExistingFiles == 5

\* 'prefix' + error, where error may be undefined
ErrText(e) == IF e = <<>> THEN <<"undefined">> ELSE e

Take(s, n) == SubSeq(s, 1, IF Len(s) < n THEN Len(s) ELSE n)

Step(threw, error, called, prompt, step) ==
  [threw |-> threw, error |-> error, called |-> called, prompt |-> prompt, step |-> step]

\* the shape shared by selectDirectory, determineStrategy, selectPattern,
\* generateContent and updateContent: getPrompt, renderPrompt, sendToCopilot
\* (outside the try), then parseJsonResponse inside try/catch
workflowStep(loaded, what, prompt, reply) ==
  IF ~loaded THEN Step(TRUE, <<what, " prompt not found">>, FALSE, NoPrompt, NoStep)
  ELSE IF reply.threw THEN Step(TRUE, reply.error, TRUE, prompt, NoStep)
  ELSE LET parsed == parseJsonResponse(reply.text)
       IN IF parsed.ok
          THEN Step(FALSE, <<>>, TRUE, prompt, stepSucceeded(parsed.value, prompt, reply.text))
          ELSE Step(FALSE, <<>>, TRUE, prompt, stepFailedWith(parsed.error, prompt, reply.text))

selectDirectory(loaded, reply) ==
  workflowStep(loaded, "Directory selection",
               Prompt("orchestration/01-directory-selection", "", NoExisting, "", ""), reply)

determineStrategy(loaded, directorySelection, existingContent, reply) ==
  workflowStep(loaded, "Content strategy",
               Prompt("orchestration/02-content-strategy",
                      directorySelection.selectedDirectory, existingContent, "", ""), reply)

selectPattern(loaded, directorySelection, reply) ==
  workflowStep(loaded, "Pattern selection",
               Prompt("orchestration/03-pattern-selection",
                      directorySelection.selectedDirectory, NoExisting, "", ""), reply)

generateContent(loaded, directorySelection, patternSelection, reply) ==
  workflowStep(loaded, "Content generation",
               Prompt("orchestration/04-content-generation",
                      directorySelection.selectedDirectory, NoExisting, "",
                      patternSelection.patternId), reply)

\* updateContent reads the target file before it renders the prompt
updateContent(fs, base, loaded, directorySelection, contentStrategy, reply) ==
  LET existing == readFile(fs, base, directorySelection.selectedDirectory,
                           contentStrategy.targetFile)
  IN IF ~loaded THEN Step(TRUE, <<"Content update", " prompt not found">>, FALSE, NoPrompt, NoStep)
     ELSE IF existing.threw THEN Step(TRUE, existing.error, FALSE, NoPrompt, NoStep)
     ELSE workflowStep(loaded, "Content update",
                       Prompt("orchestration/05-content-update",
                              directorySelection.selectedDirectory, Existing(existing.text, <<>>),
                              contentStrategy.targetFile, ""), reply)

\* a reader with no default text for a directory it cannot list
readWithoutDefault(fs, base, directoryPath) ==
  IF ~IsString(directoryPath) \/ <<base, directoryPath>> \notin fs.dirs THEN NoExisting
  ELSE LET mdFiles == Take(readdir(fs, base, directoryPath), MaxExistingFiles)
       IN Existing("", [i \in 1..Len(mdFiles) |->
                          <<mdFiles[i], fs.files[<<base, directoryPath, mdFiles[i]>>]>>])

\* readDirectoryContents: at most MaxExistingFiles markdown files, or a default text
readDirectoryContents(fs, base, directoryPath) ==
  IF ~IsString(directoryPath) \/ <<base, directoryPath>> \notin fs.dirs
  THEN Existing("Directory does not exist yet", <<>>)
  ELSE LET mdFiles == Take(readdir(fs, base, directoryPath), MaxExistingFiles)
       IN IF mdFiles = <<>> THEN Existing("No existing markdown files in directory", <<>>)
          ELSE Existing("", [i \in 1..Len(mdFiles) |->
                               <<mdFiles[i], fs.files[<<base, directoryPath, mdFiles[i]>>]>>])

\* saveContent: mkdir, then path.join, then writeFile
saveContent(fs, base, directoryPath, generation) ==
  IF ~IsString(directoryPath) THEN [threw |-> TRUE, error |-> TypeError, fs |-> fs]
  ELSE LET made == mkdir(fs, base, directoryPath)
       IN IF ~generation.hasData \/ ~IsString(generation.data.filename)
          THEN [threw |-> TRUE, error |-> TypeError, fs |-> made]
          ELSE writeFile(made, base, directoryPath, generation.data.filename,
                         generation.data.content)

\* an executeWorkflow that goes on whatever a step returned
stepNeverFailed(stepResult) == FALSE

\* an executeWorkflow that stops only when a step returned nothing at all
stepMissing(stepResult) == ~stepResult.present

\* if (!stepResult.success || !stepResult.data) throw ...
stepFailed(stepResult) == ~stepResult.success \/ ~stepResult.hasData

\* a workflow that selects a pattern whatever the strategy says
patternAlways(contentStrategy) == "pattern"

\* if (strategyResult.data.action === 'CREATE') { ... } else { ... }
branch(contentStrategy) == IF contentStrategy.action = "CREATE" THEN "pattern" ELSE "update"

\* the catch of executeWorkflow: result.error = message; return result
caught(res, message) == [res EXCEPT !.error = message]

FS == [files |-> files, dirs |-> dirs]

\* a step that sends its prompt to the oracle a second time
LogRetried(o, id) ==
  /\ calls' = IF o.called THEN calls \o <<id, id>> ELSE calls
  /\ rendered' = IF o.prompt # NoPrompt THEN Append(rendered, o.prompt) ELSE rendered

\* what a step adds to the record of oracle calls and of rendered prompts
Log(o, id) ==
  /\ calls' = IF o.called THEN Append(calls, id) ELSE calls
  /\ rendered' = IF o.prompt # NoPrompt THEN Append(rendered, o.prompt) ELSE rendered

\* a catch that records the error and lets the workflow go on where it was
FailWithoutStopping(res, at) ==
  /\ result' = res
  /\ failedAt' = at
  /\ UNCHANGED pc

\* the throw into the catch of the workflow: the result is returned, the run is over
Fail(res, at) ==
  /\ result' = res
  /\ pc' = "failed"
  /\ failedAt' = at

\* the state of the other services, which a workflow run does not touch
Elsewhere == <<writers, processedContents, requests>>

Setup == <<variant, cwdIsRoot, hasWorkspace, promptsLoaded, cancelled, input, output, Elsewhere,
           waiting, sink>>

\* an analysis that goes on without a workspace folder
analyzeAnywhere(hasFolders) == [threw |-> FALSE, error |-> <<>>]

\* analyzeRepository: throws when vscode.workspace.workspaceFolders is empty
analyzeRepository(hasFolders) ==
  IF ~hasFolders THEN [threw |-> TRUE, error |-> <<"No workspace folder found">>]
  ELSE [threw |-> FALSE, error |-> <<>>]

\* no oracle call is awaited
NotWaiting == [step |-> "", elapsed |-> 0]

\* the stage name of the progress?.(stage, message) call at each await point
StageAt ==
  [p \in {"start", "directory", "strategy", "pattern", "generation", "update", "opening"} |->
     IF p = "start" THEN "preparing"
     ELSE IF p = "generation" THEN "generating"
     ELSE IF p = "update" THEN "updating"
     ELSE p]

\* the callbacks a caller can supply: one that returns, one that throws on its
\* first call, one that throws once the file is written
Sinks == {"", "preparing", "opening"}

\* the message of the error a throwing callback throws
SinkError == <<"progress callback failed">>

\* the next progress?.() call of executeWorkflow throws
SinkThrows == variant = "sequential" /\ pc \in DOMAIN StageAt /\ sink = StageAt[pc]

\* executeWorkflow when the progress callback throws: the call is inside the
\* try, so the catch records the message and returns the result
ProgressThrows ==
  /\ SinkThrows
  /\ progress' = Append(progress, StageAt[pc])
  /\ Fail(caught(result, SinkError), "progress")
  /\ UNCHANGED <<Setup, files, dirs, locals, calls, rendered>>

\* executeWorkflow, step 0: processInputs, createContentRequest, analyzeRepository
Prepare ==
  /\ variant = "sequential" /\ pc = "start"
  /\ ~SinkThrows
  /\ progress' = Append(progress, "preparing")
  /\ IF analyzeRepository(hasWorkspace).threw
     THEN Fail(caught(result, analyzeRepository(hasWorkspace).error), "prepare")
     ELSE /\ pc' = "directory"
          /\ UNCHANGED <<result, failedAt>>
  /\ UNCHANGED <<Setup, files, dirs, locals, calls, rendered>>

\* executeWorkflow, step 1
SelectDirectory ==
  /\ variant = "sequential" /\ pc = "directory"
  /\ ~SinkThrows
  /\ \E reply \in Replies(DirectoryPayloads) :
       \E o \in {selectDirectory(promptsLoaded, reply)} :
       LET recorded == [result EXCEPT !.steps.directorySelection = o.step]
       IN /\ Log(o, "directory")
          /\ IF o.threw THEN Fail(caught(result, o.error), "directory") /\ UNCHANGED locals
             ELSE IF stepFailed(o.step)
             THEN /\ Fail(caught(recorded, <<"Directory selection failed: ">> \o ErrText(o.step.error)),
                          "directory")
                  /\ UNCHANGED locals
             ELSE /\ result' = recorded
                  /\ locals' = [locals EXCEPT !.directory = o.step.data]
                  /\ pc' = "strategy"
                  /\ UNCHANGED failedAt
  /\ progress' = Append(progress, "directory")
  /\ UNCHANGED <<Setup, files, dirs>>

\* executeWorkflow, step 2
DetermineStrategy ==
  /\ variant = "sequential" /\ pc = "strategy"
  /\ ~SinkThrows
  /\ \E reply \in Replies(StrategyPayloads) :
       \E existing \in {readDirectoryContents(FS, Cwd(cwdIsRoot), locals.directory.selectedDirectory)} :
       \E o \in {determineStrategy(promptsLoaded, locals.directory, existing, reply)} :
       LET recorded == [result EXCEPT !.steps.contentStrategy = o.step]
       IN /\ Log(o, "strategy")
          /\ IF o.threw THEN Fail(caught(result, o.error), "strategy") /\ UNCHANGED locals
             ELSE IF stepFailed(o.step)
             THEN /\ Fail(caught(recorded, <<"Content strategy failed: ">> \o ErrText(o.step.error)),
                          "strategy")
                  /\ UNCHANGED locals
             ELSE /\ result' = recorded
                  /\ locals' = [locals EXCEPT !.strategy = o.step.data, !.existing = existing]
                  /\ pc' = branch(o.step.data)
                  /\ UNCHANGED failedAt
  /\ progress' = Append(progress, "strategy")
  /\ UNCHANGED <<Setup, files, dirs>>

\* executeWorkflow, step 3 of the CREATE branch
SelectPattern ==
  /\ variant = "sequential" /\ pc = "pattern"
  /\ ~SinkThrows
  /\ \E reply \in Replies(PatternPayloads) :
       \E o \in {selectPattern(promptsLoaded, locals.directory, reply)} :
       LET recorded == [result EXCEPT !.steps.patternSelection = o.step]
       IN /\ Log(o, "pattern")
          /\ IF o.threw THEN Fail(caught(result, o.error), "pattern") /\ UNCHANGED locals
             ELSE IF stepFailed(o.step)
             THEN /\ Fail(caught(recorded, <<"Pattern selection failed: ">> \o ErrText(o.step.error)),
                          "pattern")
                  /\ UNCHANGED locals
             ELSE /\ result' = recorded
                  /\ locals' = [locals EXCEPT !.pattern = o.step.data]
                  /\ pc' = "generation"
                  /\ UNCHANGED failedAt
  /\ progress' = Append(progress, "pattern")
  /\ UNCHANGED <<Setup, files, dirs>>

\* executeWorkflow, step 4 of the CREATE branch, and saving the content
GenerateContent ==
  /\ variant = "sequential" /\ pc = "generation"
  /\ ~SinkThrows
  /\ \E reply \in Replies(GenerationPayloads) :
       \E o \in {generateContent(promptsLoaded, locals.directory, locals.pattern, reply)} :
       LET recorded == [result EXCEPT !.steps.contentGeneration = o.step]
           saved == saveContent(FS, Cwd(cwdIsRoot), locals.directory.selectedDirectory, o.step)
       IN /\ Log(o, "generation")
          /\ IF o.threw
             THEN Fail(caught(result, o.error), "generation") /\ UNCHANGED <<files, dirs>>
             ELSE IF stepFailed(o.step)
             THEN /\ Fail(caught(recorded, <<"Content generation failed: ">> \o ErrText(o.step.error)),
                          "generation")
                  /\ UNCHANGED <<files, dirs>>
             ELSE /\ files' = saved.fs.files
                  /\ dirs' = saved.fs.dirs
                  /\ IF saved.threw
                     THEN Fail(caught(recorded, saved.error), "write")
                     ELSE /\ result' = [recorded EXCEPT
                                          !.success = TRUE,
                                          !.filePath = join(locals.directory.selectedDirectory,
                                                            o.step.data.filename),
                                          !.action = "CREATED"]
                          /\ pc' = "opening"
                          /\ UNCHANGED failedAt
  /\ progress' = Append(progress, "generating")
  /\ UNCHANGED <<Setup, locals>>

\* executeWorkflow, the UPDATE branch: updateContent, then writeFile to the target
UpdateContent ==
  /\ variant = "sequential" /\ pc = "update"
  /\ ~SinkThrows
  /\ \E reply \in Replies(GenerationPayloads) :
       \E o \in {updateContent(FS, Cwd(cwdIsRoot), promptsLoaded, locals.directory, locals.strategy, reply)} :
       LET recorded == [result EXCEPT !.steps.contentGeneration = o.step]
           written == writeFile(FS, Cwd(cwdIsRoot), locals.directory.selectedDirectory,
                                locals.strategy.targetFile, o.step.data.content)
       IN /\ Log(o, "update")
          /\ IF o.threw
             THEN Fail(caught(result, o.error), "update") /\ UNCHANGED <<files, dirs>>
             ELSE IF stepFailed(o.step)
             THEN /\ Fail(caught(recorded, <<"Content update failed: ">> \o ErrText(o.step.error)),
                          "update")
                  /\ UNCHANGED <<files, dirs>>
             ELSE /\ files' = written.fs.files
                  /\ dirs' = written.fs.dirs
                  /\ IF written.threw
                     THEN Fail(caught(recorded, written.error), "write")
                     ELSE /\ result' = [recorded EXCEPT
                                          !.success = TRUE,
                                          !.filePath = join(locals.directory.selectedDirectory,
                                                            locals.strategy.targetFile),
                                          !.action = "UPDATED"]
                          /\ pc' = "opening"
                          /\ UNCHANGED failedAt
  /\ progress' = Append(progress, "updating")
  /\ UNCHANGED <<Setup, locals>>

\* executeWorkflow, the end: openFile may throw into the catch
OpenFile ==
  /\ variant = "sequential" /\ pc = "opening"
  /\ ~SinkThrows
  /\ \E opened \in BOOLEAN :
       IF opened
       THEN /\ progress' = progress \o <<"opening", "complete">>
            /\ pc' = "done"
            /\ UNCHANGED <<result, failedAt>>
       ELSE /\ progress' = Append(progress, "opening")
            /\ Fail(caught(result, <<"cannot open file">>), "open")
  /\ UNCHANGED <<Setup, files, dirs, locals, calls, rendered>>

\* ---------------------------------------------- ChatParticipantService
\* the shape shared by the chat participant's steps: renderPrompt(promptId),
\* request.model.sendRequest, extractJSON; every failure is thrown
languageModelStep(loaded, promptId, prompt, reply) ==
  IF ~loaded THEN Step(TRUE, <<"Prompt not found: ", promptId>>, FALSE, NoPrompt, NoStep)
  ELSE IF reply.threw THEN Step(TRUE, reply.error, TRUE, prompt, NoStep)
  ELSE LET parsed == extractJSON(reply.text)
       IN IF parsed.ok
          THEN Step(FALSE, <<>>, TRUE, prompt, stepSucceeded(parsed.value, NoPrompt, <<>>))
          ELSE Step(TRUE, parsed.error, TRUE, prompt, NoStep)

\* readDirectoryContents of the chat participant: the file names under the
\* workspace root; path.join is outside its try
chatReadDirectoryContents(fs, directory) ==
  IF ~IsString(directory) THEN [threw |-> TRUE, error |-> TypeError, existing |-> NoExisting]
  ELSE IF <<"root", directory>> \notin fs.dirs
       THEN [threw |-> FALSE, error |-> <<>>, existing |-> NoExisting]
       ELSE [threw |-> FALSE, error |-> <<>>,
             existing |-> Existing("", readdir(fs, "root", directory))]

\* readFile of the chat participant: the path is relative to the working directory
chatReadFile(fs, base, dir, name) ==
  LET r == readFile(fs, base, dir, name)
  IN IF ~IsString(dir) \/ ~IsString(name) THEN r
     ELSE IF r.threw THEN [r EXCEPT !.error = <<"Failed to read file: ">> \o r.error]
     ELSE r

\* writeFile of the chat participant: under the workspace root; the two
\* path.join are outside its try, mkdir and fs.writeFile inside
chatWriteFile(fs, directory, filename, content) ==
  IF ~IsString(directory) \/ ~IsString(filename)
  THEN [threw |-> TRUE, error |-> TypeError, fs |-> fs]
  ELSE LET made == mkdir(fs, "root", directory)
           w == writeFile(made, "root", directory, filename, content)
       IN IF w.threw
          THEN [threw |-> TRUE, error |-> <<"Failed to write file: ">> \o w.error, fs |-> made]
          ELSE w

chatSelectDirectory(loaded, reply) ==
  languageModelStep(loaded, "orchestration/01-directory-selection",
                    Prompt("orchestration/01-directory-selection", "", NoExisting, "", ""), reply)

chatDetermineStrategy(loaded, directoryData, existingContent, reply) ==
  languageModelStep(loaded, "orchestration/02-content-strategy",
                    Prompt("orchestration/02-content-strategy",
                           directoryData.selectedDirectory, existingContent, "", ""), reply)

chatSelectPattern(loaded, strategyData, reply) ==
  languageModelStep(loaded, "orchestration/03-pattern-selection",
                    Prompt("orchestration/03-pattern-selection", "", NoExisting,
                           strategyData.targetFile, ""), reply)

\* the OrchestrationResult literal generateContent and updateContent return
chatResult(action, filePath, directoryData, strategyData, patternData, hasPattern, data) ==
  [success |-> TRUE, action |-> action, filePath |-> filePath, error |-> <<>>,
   steps |-> [s \in StepIds |->
                IF s = "directorySelection" THEN stepSucceeded(directoryData, NoPrompt, <<>>)
                ELSE IF s = "contentStrategy" THEN stepSucceeded(strategyData, NoPrompt, <<>>)
                ELSE IF s = "patternSelection"
                THEN (IF hasPattern THEN stepSucceeded(patternData, NoPrompt, <<>>) ELSE NoStep)
                ELSE stepSucceeded(data, NoPrompt, <<>>)]]

Outcome(o, at, fs, res) ==
  [threw |-> o.threw, error |-> o.error, called |-> o.called, prompt |-> o.prompt,
   at |-> at, fs |-> fs, result |-> res]

\* the request of generateContent: renderPrompt, sendRequest, extractJSON
chatGenerationRequest(loaded, directoryData, patternData, reply) ==
  languageModelStep(loaded, "orchestration/04-content-generation",
                    Prompt("orchestration/04-content-generation",
                           directoryData.selectedDirectory, NoExisting, "",
                           patternData.patternId), reply)

\* the request of updateContent, with the current content it has read
chatUpdateRequest(loaded, directoryData, strategyData, current, reply) ==
  languageModelStep(loaded, "orchestration/05-content-update",
                    Prompt("orchestration/05-content-update",
                           directoryData.selectedDirectory,
                           Existing(current.text, <<>>), strategyData.targetFile, ""), reply)

\* generateContent of the chat participant: pattern lookup, oracle, extractJSON, writeFile
chatGenerateContent(fs, loaded, directoryData, strategyData, patternData, reply) ==
  LET o == chatGenerationRequest(loaded, directoryData, patternData, reply)
      w == chatWriteFile(fs, directoryData.selectedDirectory, o.step.data.filename,
                         o.step.data.content)
  IN IF patternData.patternId \notin Catalog
     THEN Outcome(Step(TRUE, <<"Pattern not found: ", patternData.patternId>>, FALSE,
                       NoPrompt, NoStep), "generation", fs, InitResult)
     ELSE IF o.threw THEN Outcome(o, "generation", fs, InitResult)
     ELSE IF w.threw THEN Outcome([o EXCEPT !.threw = TRUE, !.error = w.error], "write", w.fs,
                                  InitResult)
     ELSE Outcome(o, "", w.fs,
                  chatResult("CREATED",
                             <<"root", directoryData.selectedDirectory, o.step.data.filename>>,
                             directoryData, strategyData, patternData, TRUE, o.step.data))

\* updateContent of the chat participant: readFile, oracle, extractJSON, writeFile
chatUpdateContent(fs, base, loaded, directoryData, strategyData, reply) ==
  LET targetFile == strategyData.targetFile
      current == chatReadFile(fs, base, directoryData.selectedDirectory, targetFile)
      o == chatUpdateRequest(loaded, directoryData, strategyData, current, reply)
      w == chatWriteFile(fs, directoryData.selectedDirectory, o.step.data.filename,
                         o.step.data.content)
  IN IF current.threw
     THEN Outcome(Step(TRUE, current.error, FALSE, NoPrompt, NoStep), "update", fs, InitResult)
     ELSE IF o.threw THEN Outcome(o, "update", fs, InitResult)
     ELSE IF w.threw THEN Outcome([o EXCEPT !.threw = TRUE, !.error = w.error], "write", w.fs,
                                  InitResult)
     ELSE Outcome(o, "", w.fs,
                  chatResult("UPDATED",
                             <<"root", directoryData.selectedDirectory, o.step.data.filename>>,
                             directoryData, strategyData, EmptyObject, FALSE, o.step.data))

\* the catch of executeSequentialWorkflow: a fresh result with an empty steps map
chatCaught(message) == [InitResult EXCEPT !.error = message]

\* getRepositoryStructure of the chat participant: the same check
getRepositoryStructure(hasFolders) ==
  IF ~hasFolders THEN [threw |-> TRUE, error |-> <<"No workspace folder found">>]
  ELSE [threw |-> FALSE, error |-> <<>>]

\* executeSequentialWorkflow, step 1: getRepositoryStructure
ChatAnalyze ==
  /\ variant = "chat" /\ pc = "start"
  /\ IF getRepositoryStructure(hasWorkspace).threw
     THEN Fail(chatCaught(getRepositoryStructure(hasWorkspace).error), "prepare")
     ELSE /\ pc' = "directory"
          /\ UNCHANGED <<result, failedAt>>
  /\ UNCHANGED <<Setup, files, dirs, locals, calls, rendered, progress>>

\* executeSequentialWorkflow, step 2
ChatSelectDirectory ==
  /\ variant = "chat" /\ pc = "directory"
  /\ \E reply \in sendRequest(DirectoryPayloads, cancelled) :
       \E o \in {chatSelectDirectory(promptsLoaded, reply)} :
          /\ Log(o, "directory")
          /\ IF o.threw THEN Fail(chatCaught(o.error), "directory") /\ UNCHANGED locals
             ELSE /\ locals' = [locals EXCEPT !.directory = o.step.data]
                  /\ pc' = "strategy"
                  /\ UNCHANGED <<result, failedAt>>
  /\ UNCHANGED <<Setup, files, dirs, progress>>

\* executeSequentialWorkflow, steps 3 and 4
ChatDetermineStrategy ==
  /\ variant = "chat" /\ pc = "strategy"
  /\ \E reply \in sendRequest(StrategyPayloads, cancelled) :
       \E listing \in {chatReadDirectoryContents(FS, locals.directory.selectedDirectory)} :
       \E o \in {IF listing.threw THEN Step(TRUE, listing.error, FALSE, NoPrompt, NoStep) ELSE chatDetermineStrategy(promptsLoaded, locals.directory, listing.existing, reply)} :
          /\ Log(o, "strategy")
          /\ IF o.threw THEN Fail(chatCaught(o.error), "strategy") /\ UNCHANGED locals
             ELSE /\ locals' = [locals EXCEPT !.strategy = o.step.data,
                                              !.existing = listing.existing]
                  /\ pc' = branch(o.step.data)
                  /\ UNCHANGED <<result, failedAt>>
  /\ UNCHANGED <<Setup, files, dirs, progress>>

\* executeSequentialWorkflow, step 5 of the CREATE branch
ChatSelectPattern ==
  /\ variant = "chat" /\ pc = "pattern"
  /\ \E reply \in sendRequest(PatternPayloads, cancelled) :
       \E o \in {chatSelectPattern(promptsLoaded, locals.strategy, reply)} :
          /\ Log(o, "pattern")
          /\ IF o.threw THEN Fail(chatCaught(o.error), "pattern") /\ UNCHANGED locals
             ELSE /\ locals' = [locals EXCEPT !.pattern = o.step.data]
                  /\ pc' = "generation"
                  /\ UNCHANGED <<result, failedAt>>
  /\ UNCHANGED <<Setup, files, dirs, progress>>

\* executeSequentialWorkflow, step 6 of the CREATE branch
ChatGenerateContent ==
  /\ variant = "chat" /\ pc = "generation"
  /\ \E reply \in sendRequest(GenerationPayloads, cancelled) :
       \E out \in {chatGenerateContent(FS, promptsLoaded, locals.directory, locals.strategy, locals.pattern, reply)} :
          /\ calls' = IF out.called THEN Append(calls, "generation") ELSE calls
          /\ rendered' = IF out.prompt # NoPrompt THEN Append(rendered, out.prompt) ELSE rendered
          /\ files' = out.fs.files
          /\ dirs' = out.fs.dirs
          /\ IF out.threw THEN Fail(chatCaught(out.error), out.at)
             ELSE /\ result' = out.result
                  /\ pc' = "done"
                  /\ UNCHANGED failedAt
  /\ UNCHANGED <<Setup, locals, progress>>

\* executeSequentialWorkflow, step 6 of the other branch
ChatUpdateContent ==
  /\ variant = "chat" /\ pc = "update"
  /\ \E reply \in sendRequest(GenerationPayloads, cancelled) :
       \E out \in {chatUpdateContent(FS, Cwd(cwdIsRoot), promptsLoaded, locals.directory, locals.strategy, reply)} :
          /\ calls' = IF out.called THEN Append(calls, "update") ELSE calls
          /\ rendered' = IF out.prompt # NoPrompt THEN Append(rendered, out.prompt) ELSE rendered
          /\ files' = out.fs.files
          /\ dirs' = out.fs.dirs
          /\ IF out.threw THEN Fail(chatCaught(out.error), out.at)
             ELSE /\ result' = out.result
                  /\ pc' = "done"
                  /\ UNCHANGED failedAt
  /\ UNCHANGED <<Setup, locals, progress>>

\* ----------------------------------------------- an oracle that is silent
CallPcs == {"directory", "strategy", "pattern", "generation", "update"}

\* the step at the current await point, up to the reply of the oracle
attempt(reply) ==
  IF variant = "sequential"
  THEN CASE pc = "directory" -> selectDirectory(promptsLoaded, reply)
         [] pc = "strategy" ->
              determineStrategy(promptsLoaded, locals.directory,
                                readDirectoryContents(FS, Cwd(cwdIsRoot),
                                                      locals.directory.selectedDirectory),
                                reply)
         [] pc = "pattern" -> selectPattern(promptsLoaded, locals.directory, reply)
         [] pc = "generation" ->
              generateContent(promptsLoaded, locals.directory, locals.pattern, reply)
         [] OTHER -> updateContent(FS, Cwd(cwdIsRoot), promptsLoaded, locals.directory,
                                   locals.strategy, reply)
  ELSE CASE pc = "directory" -> chatSelectDirectory(promptsLoaded, reply)
         [] pc = "strategy" ->
              LET listing == chatReadDirectoryContents(FS, locals.directory.selectedDirectory)
              IN IF listing.threw THEN Step(TRUE, listing.error, FALSE, NoPrompt, NoStep)
                 ELSE chatDetermineStrategy(promptsLoaded, locals.directory,
                                            listing.existing, reply)
         [] pc = "pattern" -> chatSelectPattern(promptsLoaded, locals.strategy, reply)
         [] pc = "generation" ->
              IF locals.pattern.patternId \notin Catalog
              THEN Step(TRUE, <<"Pattern not found: ", locals.pattern.patternId>>, FALSE,
                        NoPrompt, NoStep)
              ELSE chatGenerationRequest(promptsLoaded, locals.directory, locals.pattern, reply)
         [] OTHER ->
              LET current == chatReadFile(FS, Cwd(cwdIsRoot), locals.directory.selectedDirectory,
                                          locals.strategy.targetFile)
              IN IF current.threw THEN Step(TRUE, current.error, FALSE, NoPrompt, NoStep)
                 ELSE chatUpdateRequest(promptsLoaded, locals.directory, locals.strategy,
                                        current, reply)

\* a step sends its prompt and the oracle does not answer: await sendToCopilot(prompt)
\* and await request.model.sendRequest(...) have no timer beside them
Await ==
  /\ pc \in CallPcs
  /\ ~SinkThrows
  /\ ~(variant = "chat" /\ cancelled)
  /\ \E o \in {attempt(TransportFailure)} :
       /\ o.called
       /\ calls' = Append(calls, pc)
       /\ rendered' = Append(rendered, o.prompt)
  /\ progress' = IF variant = "sequential" THEN Append(progress, StageAt[pc]) ELSE progress
  /\ waiting' = [step |-> pc, elapsed |-> 0]
  /\ pc' = "awaiting"
  /\ UNCHANGED <<variant, cwdIsRoot, hasWorkspace, promptsLoaded, cancelled, input, output,
                 Elsewhere, sink, files, dirs, result, locals, failedAt>>

\* time passes and the oracle stays silent
StayAwaiting ==
  /\ pc = "awaiting"
  /\ waiting.elapsed < MaxWait
  /\ waiting' = [waiting EXCEPT !.elapsed = @ + 1]
  /\ UNCHANGED <<variant, cwdIsRoot, hasWorkspace, promptsLoaded, cancelled, input, output,
                 Elsewhere, sink, files, dirs, result, locals, failedAt, pc, calls, rendered,
                 progress>>

\* the chat request is stopped while sendRequest is pending: the request rejects
AwaitRejected ==
  /\ pc = "awaiting" /\ variant = "chat" /\ cancelled
  /\ Fail(chatCaught(Canceled.error), waiting.step)
  /\ UNCHANGED <<Setup, files, dirs, locals, calls, rendered, progress>>

\* the user stops the chat request while the run is suspended at an await
RunningPcs == {"directory", "strategy", "pattern", "generation", "update", "opening", "awaiting"}

Cancel ==
  /\ pc \in RunningPcs
  /\ ~cancelled
  /\ cancelled' = TRUE
  /\ UNCHANGED <<variant, cwdIsRoot, hasWorkspace, promptsLoaded, pc, files, dirs, result,
                 locals, calls, rendered, progress, failedAt, input, output, Elsewhere,
                 waiting, sink>>

\* ------------------------------------------------------ the specification
Init ==
  /\ variant \in {"sequential", "chat"}
  /\ cwdIsRoot \in BOOLEAN
  /\ hasWorkspace \in BOOLEAN
  /\ promptsLoaded \in BOOLEAN
  /\ pc = "start"
  /\ files = InitFiles
  /\ dirs = InitDirs
  /\ result = InitResult
  /\ locals = InitLocals
  /\ calls = <<>>
  /\ rendered = <<>>
  /\ progress = <<>>
  /\ failedAt = ""
  /\ cancelled = FALSE
  /\ waiting = NotWaiting
  /\ sink \in (IF variant = "sequential" THEN Sinks ELSE {""})
  /\ writers = NoWriters
  /\ processedContents = <<>>
  /\ requests = <<>>
  /\ input = <<>>
  /\ output = [by |-> "none", ok |-> FALSE, value |-> EmptyObject, error |-> <<>>]

Next ==
  \/ Prepare
  \/ SelectDirectory
  \/ DetermineStrategy
  \/ SelectPattern
  \/ GenerateContent
  \/ UpdateContent
  \/ OpenFile
  \/ ChatAnalyze
  \/ ChatSelectDirectory
  \/ ChatDetermineStrategy
  \/ ChatSelectPattern
  \/ ChatGenerateContent
  \/ ChatUpdateContent
  \/ Cancel
  \/ ProgressThrows
  \/ Await
  \/ StayAwaiting
  \/ AwaitRejected

Spec == Init /\ [][Next]_vars

\* ------------------------------------------------ extraction on its own
Alphabet == {Fence, Close, LB, RB, WS, Prose, Member("action", "CREATE")}

RECURSIVE SeqsUpTo(_)
SeqsUpTo(n) ==
  IF n = 0 THEN {<<>>}
  ELSE LET prev == SeqsUpTo(n - 1)
       IN prev \cup {Append(s, a) : s \in {p \in prev : Len(p) = n - 1}, a \in Alphabet}

NoOutput == [by |-> "none", ok |-> FALSE, value |-> EmptyObject, error |-> <<>>]

Out(by, r) == [by |-> by, ok |-> r.ok, value |-> r.value, error |-> r.error]

InitExtract ==
  /\ input \in SeqsUpTo(MaxLen)
  /\ output = NoOutput
  /\ pc = "extract"
  /\ variant = "none"
  /\ cwdIsRoot = TRUE
  /\ hasWorkspace = TRUE
  /\ promptsLoaded = TRUE
  /\ files = InitFiles
  /\ dirs = InitDirs
  /\ result = InitResult
  /\ locals = InitLocals
  /\ calls = <<>>
  /\ rendered = <<>>
  /\ progress = <<>>
  /\ failedAt = ""
  /\ cancelled = FALSE
  /\ waiting = NotWaiting
  /\ sink = ""
  /\ writers = NoWriters
  /\ processedContents = <<>>
  /\ requests = <<>>

ParseJsonResponse ==
  /\ pc = "extract"
  /\ output' = Out("parseJsonResponse", parseJsonResponse(input))
  /\ pc' = "extracted"
  /\ UNCHANGED <<input, variant, cwdIsRoot, hasWorkspace, promptsLoaded, files, dirs,
                 result, locals, calls, rendered, progress, failedAt, cancelled, Elsewhere,
                 waiting, sink>>

ExtractJSON ==
  /\ pc = "extract"
  /\ output' = Out("extractJSON", extractJSON(input))
  /\ pc' = "extracted"
  /\ UNCHANGED <<input, variant, cwdIsRoot, hasWorkspace, promptsLoaded, files, dirs,
                 result, locals, calls, rendered, progress, failedAt, cancelled, Elsewhere,
                 waiting, sink>>

NextExtract == ParseJsonResponse \/ ExtractJSON

SpecExtract == InitExtract /\ [][NextExtract]_vars

\* ------------------------------------- concurrent runs at their write
\* Two executeWorkflow calls in flight have each reached
\* fs.promises.writeFile(filePath, content, 'utf-8'), which opens the file
\* (truncating it), writes the data and closes it, as separate asynchronous
\* operations; neither saveContent nor executeWorkflow takes a lock.
WrittenContents == {"new", "newer"}

TargetPath(r) == <<"root", "docs", writers[r].name>>

NotWriting == <<variant, cwdIsRoot, hasWorkspace, promptsLoaded, pc, dirs, result, locals,
                calls, rendered, progress, failedAt, cancelled, processedContents, requests,
                input, output, waiting, sink>>

InitWrites ==
  /\ writers \in [Runs -> [at : {"ready"}, name : FileNames, data : WrittenContents]]
  /\ pc = "writing"
  /\ variant = "none"
  /\ cwdIsRoot = TRUE
  /\ hasWorkspace = TRUE
  /\ promptsLoaded = TRUE
  /\ files = InitFiles
  /\ dirs = InitDirs
  /\ result = InitResult
  /\ locals = InitLocals
  /\ calls = <<>>
  /\ rendered = <<>>
  /\ progress = <<>>
  /\ failedAt = ""
  /\ cancelled = FALSE
  /\ waiting = NotWaiting
  /\ sink = ""
  /\ processedContents = <<>>
  /\ requests = <<>>
  /\ input = <<>>
  /\ output = [by |-> "none", ok |-> FALSE, value |-> EmptyObject, error |-> <<>>]

\* writeFile, first part: open(path, 'w') creates or truncates the file
WriteOpen(r) ==
  /\ pc = "writing" /\ writers[r].at = "ready"
  /\ writers' = [writers EXCEPT ![r].at = "open"]
  /\ files' = [files EXCEPT ![TargetPath(r)] = ""]
  /\ UNCHANGED NotWriting

\* writeFile, second part: the data is written from the start of the file
WriteData(r) ==
  /\ pc = "writing" /\ writers[r].at = "open"
  /\ writers' = [writers EXCEPT ![r].at = "written"]
  /\ files' = [files EXCEPT ![TargetPath(r)] = writers[r].data]
  /\ UNCHANGED NotWriting

\* writeFile, last part: the handle is closed and the promise resolves
WriteClose(r) ==
  /\ pc = "writing" /\ writers[r].at = "written"
  /\ writers' = [writers EXCEPT ![r].at = "closed"]
  /\ UNCHANGED files
  /\ UNCHANGED NotWriting

NextWrites ==
  \/ \E r \in Runs : WriteOpen(r)
  \/ \E r \in Runs : WriteData(r)
  \/ \E r \in Runs : WriteClose(r)

SpecWrites == InitWrites /\ [][NextWrites]_vars

\* ------------------------------------------- CopilotIntegrationService
\* the files a webview request can carry; the input handler has no service for
\* the last one
InputOrder == <<"notes.txt", "design.md", "photo.bin">>
Unsupported == {"photo.bin"}
ContentRequests == {"guide", "reference"}
MaxRequests == 3

\* the input files of a request: any selection, in the order given
InputSelections ==
  {SelectSeq(InputOrder, LAMBDA f : f \in chosen) :
     chosen \in SUBSET {InputOrder[i] : i \in 1..Len(InputOrder)}}

\* InputHandlerService.processInputs: the content of every input a service could
\* process; the others are left out
processInputs(inputs) ==
  LET done == SelectSeq(inputs, LAMBDA f : f \notin Unsupported)
  IN [i \in 1..Len(done) |-> [source |-> done[i], text |-> <<"text of ", done[i]>>]]

\* the query createNewContent opens the chat with
chatQuery(contentRequest, contents) ==
  [request |-> contentRequest,
   materials |-> [i \in 1..Len(contents) |-> <<contents[i].source, contents[i].text>>]]

NotIntegration == <<variant, cwdIsRoot, hasWorkspace, promptsLoaded, pc, files, dirs, result,
                    locals, calls, rendered, progress, failedAt, cancelled, writers, input,
                    output, waiting, sink>>

InitIntegration ==
  /\ processedContents = <<>>
  /\ requests = <<>>
  /\ pc = "webview"
  /\ variant = "none"
  /\ cwdIsRoot = TRUE
  /\ hasWorkspace = TRUE
  /\ promptsLoaded = TRUE
  /\ files = InitFiles
  /\ dirs = InitDirs
  /\ result = InitResult
  /\ locals = InitLocals
  /\ calls = <<>>
  /\ rendered = <<>>
  /\ progress = <<>>
  /\ failedAt = ""
  /\ cancelled = FALSE
  /\ waiting = NotWaiting
  /\ sink = ""
  /\ writers = NoWriters
  /\ input = <<>>
  /\ output = [by |-> "none", ok |-> FALSE, value |-> EmptyObject, error |-> <<>>]

\* createNewContent(contentRequest, inputs): this.processedContents is assigned
\* only when there are inputs, and read in either case
CreateNewContent ==
  /\ pc = "webview"
  /\ Len(requests) < MaxRequests
  /\ \E contentRequest \in ContentRequests, inputs \in InputSelections :
       \E contents \in {IF Len(inputs) > 0 THEN processInputs(inputs) ELSE processedContents} :
         /\ processedContents' = contents
         /\ requests' = Append(requests, [contentRequest |-> contentRequest,
                                          inputs |-> inputs,
                                          query |-> chatQuery(contentRequest, contents)])
  /\ UNCHANGED NotIntegration

\* clearProcessedContents()
ClearProcessedContents ==
  /\ pc = "webview"
  /\ processedContents # <<>>
  /\ processedContents' = <<>>
  /\ UNCHANGED requests
  /\ UNCHANGED NotIntegration

NextIntegration == CreateNewContent \/ ClearProcessedContents

SpecIntegration == InitIntegration /\ [][NextIntegration]_vars

\* ------------------------------------------- reading existing content
\* The three readers of the selected directory, each applied to a directory
\* listing. An entry has a name, an extension ("" for a subdirectory) and the
\* number of characters of its content.
MaxFiles == 11
PreviewLength == 500
MaxDirectoryFiles == 10

Extensions == {"md", "markdown", "txt", ""}
Sizes == {0, PreviewLength, PreviewLength + 1}

Entry(name, ext, size) == [name |-> name, ext |-> ext, size |-> size]

\* a directory of n entries, the even ones of extension ext, all of one size
Listing(n, ext, size) ==
  [i \in 1..n |-> Entry(i, IF i % 2 = 0 THEN ext ELSE "md", size)]

\* the listing of a directory that does not exist: readdir throws ENOENT
NoDirectory == <<Entry(0, "ENOENT", 0)>>

Listings ==
  {NoDirectory} \cup {Listing(n, e, s) : n \in 0..MaxFiles, e \in Extensions, s \in Sizes}

\* content.substring(0, n) of a content of the given number of characters
substring(size, n) == IF size < n THEN size ELSE n

\* what a reader handed on: the documents it read, as the number of characters
\* kept of each, the names it listed, and the fixed text it returned instead
Handed(by, documents, names, text) ==
  [by |-> by, documents |-> documents, names |-> names, text |-> text]

NothingHanded == Handed("none", <<>>, <<>>, "")

\* SequentialOrchestrationService.readDirectoryContents
sequentialExisting(listing) ==
  IF listing = NoDirectory
  THEN Handed("sequential", <<>>, <<>>, "Directory does not exist yet")
  ELSE LET mdFiles == SelectSeq(listing, LAMBDA f : f.ext \in {"md", "markdown"})
           read == Take(mdFiles, MaxExistingFiles)
       IN IF read = <<>>
          THEN Handed("sequential", <<>>, <<>>, "No existing markdown files in directory")
          ELSE Handed("sequential",
                      [i \in 1..Len(read) |-> substring(read[i].size, PreviewLength)],
                      [i \in 1..Len(read) |-> read[i].name], "")

\* CopilotOrchestrationService.getExistingDirectoryContent
getExistingDirectoryContent(listing) ==
  IF listing = NoDirectory THEN Handed("copilot", <<>>, <<>>, "")
  ELSE LET found == Take(SelectSeq(listing, LAMBDA f : f.ext \in {"md", "txt"}),
                         MaxDirectoryFiles)
       IN Handed("copilot", [i \in 1..Len(found) |-> found[i].size],
                 [i \in 1..Len(found) |-> found[i].name], "")

\* ChatParticipantService.readDirectoryContents: the names of the files, none read
chatExisting(listing) ==
  IF listing = NoDirectory THEN Handed("chat", <<>>, <<>>, "")
  ELSE LET entries == SelectSeq(listing, LAMBDA f : f.ext # "")
       IN Handed("chat", <<>>, [i \in 1..Len(entries) |-> entries[i].name], "")

\* the variables a function applied on its own leaves alone
Apart == <<variant, cwdIsRoot, hasWorkspace, promptsLoaded, files, dirs, result, locals,
           calls, rendered, progress, failedAt, cancelled, Elsewhere, waiting, sink>>

\* their values in a specification of a function applied on its own
InitApart ==
  /\ variant = "none"
  /\ cwdIsRoot = TRUE
  /\ hasWorkspace = TRUE
  /\ promptsLoaded = TRUE
  /\ files = InitFiles
  /\ dirs = InitDirs
  /\ result = InitResult
  /\ locals = InitLocals
  /\ calls = <<>>
  /\ rendered = <<>>
  /\ progress = <<>>
  /\ failedAt = ""
  /\ cancelled = FALSE
  /\ waiting = NotWaiting
  /\ sink = ""
  /\ writers = NoWriters
  /\ processedContents = <<>>
  /\ requests = <<>>

InitExisting ==
  /\ input \in Listings
  /\ output = NothingHanded
  /\ pc = "read"
  /\ InitApart

ReadDirectoryContents ==
  /\ pc = "read"
  /\ output' = sequentialExisting(input)
  /\ pc' = "strategy"
  /\ UNCHANGED <<input, Apart>>

GetExistingDirectoryContent ==
  /\ pc = "read"
  /\ output' = getExistingDirectoryContent(input)
  /\ pc' = "strategy"
  /\ UNCHANGED <<input, Apart>>

ChatReadDirectoryContents ==
  /\ pc = "read"
  /\ output' = chatExisting(input)
  /\ pc' = "strategy"
  /\ UNCHANGED <<input, Apart>>

NextExisting == ReadDirectoryContents \/ GetExistingDirectoryContent \/ ChatReadDirectoryContents

SpecExisting == InitExisting /\ [][NextExisting]_vars

\* ------------------------------------------------ ContentPatternService
\* The constructor loads the catalog from content_standards.json. The file is
\* missing, unreadable, or holds a text; a text is a sequence of tokens, and a
\* contentTypes member stands for the list of patterns with the id it carries.
MaxText == 3

StandardsAlphabet ==
  {LB, RB, Prose, Member("contentTypes", "custom-pattern"), Member("version", "1.0")}

RECURSIVE TextsUpTo(_)
TextsUpTo(n) ==
  IF n = 0 THEN {<<>>}
  ELSE LET prev == TextsUpTo(n - 1)
       IN prev \cup {Append(s, a) : s \in {p \in prev : Len(p) = n - 1},
                                    a \in StandardsAlphabet}

StandardsFiles ==
  {[exists |-> FALSE, readable |-> FALSE, text |-> <<>>]}
  \cup [exists : {TRUE}, readable : BOOLEAN, text : TextsUpTo(MaxText)]

\* the state of the service after its constructor: whether it threw, the ids
\* getAvailablePatterns returns, and what the last getPatternById returned
Standards(by, threw, patterns) ==
  [by |-> by, threw |-> threw, patterns |-> patterns, found |-> Undefined]

NoStandards == Standards("none", FALSE, {})

\* a loader whose exceptions escape: the constructor throws and there is no catalog
loadWithoutCatch(file) ==
  IF ~file.exists THEN Standards("load", FALSE, Catalog)
  ELSE IF ~file.readable \/ ~JSONparse(file.text).ok
          \/ member(Trim(file.text), "contentTypes") = Undefined
       THEN Standards("load", TRUE, {})
       ELSE Standards("load", FALSE, {member(Trim(file.text), "contentTypes")})

\* loadContentStandards: existsSync, readFileSync, JSON.parse and the read of
\* contentTypes.length are inside one try, whose catch creates the defaults
loadContentStandards(file) ==
  IF ~file.exists THEN Standards("load", FALSE, Catalog)
  ELSE IF ~file.readable THEN Standards("load", FALSE, Catalog)
  ELSE IF ~JSONparse(file.text).ok THEN Standards("load", FALSE, Catalog)
  ELSE IF member(Trim(file.text), "contentTypes") = Undefined
       THEN Standards("load", FALSE, Catalog)
       ELSE Standards("load", FALSE, {member(Trim(file.text), "contentTypes")})

InitStandards ==
  /\ input \in StandardsFiles
  /\ output = NoStandards
  /\ pc = "construct"
  /\ InitApart

LoadContentStandards ==
  /\ pc = "construct"
  /\ output' = loadContentStandards(input)
  /\ pc' = "constructed"
  /\ UNCHANGED <<input, Apart>>

\* getPatternById(id) on the constructed service
GetPatternById ==
  /\ pc = "constructed"
  /\ \E id \in Catalog \cup {"custom-pattern"} :
       output' = [output EXCEPT !.found = IF id \in output.patterns THEN id ELSE Undefined]
  /\ pc' = "looked up"
  /\ UNCHANGED <<input, Apart>>

NextStandards == LoadContentStandards \/ GetPatternById

SpecStandards == InitStandards /\ [][NextStandards]_vars

\* ------------------------------------------------- the repository walk
\* The three buildDirectoryTree functions, each applied to a workspace that is
\* a chain of nested directories: names[d] is the directory d levels below the
\* root. A walk returns the levels whose directory it lists.
MaxChain == 4
maxDepth == 3

DirectoryNames == {"src", "docs", "node_modules", ".git"}

\* skipPatterns of shouldSkipDirectory, as far as DirectoryNames goes
skipPatterns == {"node_modules", ".git"}

startsWithDot(name) == name \in {".git"}

shouldSkipDirectory(name) == name \in skipPatterns \/ startsWithDot(name)

RECURSIVE ChainsUpTo(_)
ChainsUpTo(n) ==
  IF n = 0 THEN {<<>>}
  ELSE LET prev == ChainsUpTo(n - 1)
       IN prev \cup {Append(c, d) : c \in {p \in prev : Len(p) = n - 1}, d \in DirectoryNames}

\* RepositoryContextService.buildDirectoryTree(dirPath, depth): the node of the
\* directory itself, and its children when depth < maxDepth and it is not skipped
RECURSIVE repositoryTree(_, _)
repositoryTree(names, depth) ==
  {depth} \cup
    (IF depth < maxDepth /\ (depth = 0 \/ ~shouldSkipDirectory(names[depth]))
        /\ depth < Len(names)
     THEN repositoryTree(names, depth + 1)
     ELSE {})

\* ChatParticipantService.buildDirectoryTree(dirPath, maxDepth, currentDepth):
\* the entries of the directory but those that start with a dot
RECURSIVE chatTree(_, _)
chatTree(names, currentDepth) ==
  IF currentDepth >= maxDepth \/ currentDepth >= Len(names) THEN {}
  ELSE IF startsWithDot(names[currentDepth + 1]) THEN {}
  ELSE {currentDepth + 1} \cup chatTree(names, currentDepth + 1)

\* CopilotOrchestrationService.buildDirectoryTree(dirPath): the node of the
\* directory, and under it every entry that does not start with a dot
RECURSIVE copilotTree(_, _)
copilotTree(names, depth) ==
  {depth} \cup
    (IF depth < Len(names) /\ ~startsWithDot(names[depth + 1])
     THEN copilotTree(names, depth + 1)
     ELSE {})

Walked(by, listed) == [by |-> by, listed |-> listed]

InitWalk ==
  /\ input \in ChainsUpTo(MaxChain)
  /\ output = Walked("none", {})
  /\ pc = "walk"
  /\ InitApart

RepositoryBuildDirectoryTree ==
  /\ pc = "walk"
  /\ output' = Walked("repository", repositoryTree(input, 0))
  /\ pc' = "walked"
  /\ UNCHANGED <<input, Apart>>

ChatBuildDirectoryTree ==
  /\ pc = "walk"
  /\ output' = Walked("chat", chatTree(input, 0))
  /\ pc' = "walked"
  /\ UNCHANGED <<input, Apart>>

CopilotBuildDirectoryTree ==
  /\ pc = "walk"
  /\ output' = Walked("copilot", copilotTree(input, 0))
  /\ pc' = "walked"
  /\ UNCHANGED <<input, Apart>>

NextWalk == RepositoryBuildDirectoryTree \/ ChatBuildDirectoryTree \/ CopilotBuildDirectoryTree

SpecWalk == InitWalk /\ [][NextWalk]_vars

\* ------------------------------------------ AutomatedOrchestrationService
\* The automated workflow answers its own prompts: simulateAutomatedCopilotResponse
\* looks for keywords in the rendered prompt. A text is modelled by the set of
\* those keywords it contains; the goal of the user is such a set.
Keywords == {"directory", "strategy", "pattern", "generation", "update"}

\* the keywords in the text of each orchestration template (includes() is
\* case-sensitive: the heading "Content Generation" does not contain "generation")
templateWords(promptId) ==
  CASE promptId = "orchestration/01-directory-selection" -> {"directory", "pattern"}
    [] promptId = "orchestration/02-content-strategy" -> {"directory", "pattern", "update"}
    [] promptId = "orchestration/03-pattern-selection" -> {"directory", "pattern"}
    [] promptId = "orchestration/04-content-generation" -> {"pattern"}
    [] OTHER -> {"pattern", "update"}

\* simulateAutomatedCopilotResponse(prompt): the first keyword found decides
simulateAutomatedCopilotResponse(words) ==
  IF "directory" \in words THEN Bare(<<Member("selectedDirectory", "docs")>>)
  ELSE IF "strategy" \in words
       THEN Bare(<<Member("action", "CREATE"), Member("targetFile", Null)>>)
  ELSE IF "pattern" \in words THEN Bare(<<Member("patternId", "overview")>>)
  ELSE IF "generation" \in words \/ "update" \in words
       THEN Bare(<<Member("content", "new"), Member("filename", "automated-documentation.md")>>)
  ELSE Bare(<<Member("error", "Unknown prompt type")>>)

\* the shape shared by the automated steps: getPrompt, renderPrompt, then
\* sendToCopilotAPI and parseJsonResponse inside try/catch; words are the
\* keywords of the values substituted into the template
automatedStep(loaded, what, promptId, words) ==
  IF ~loaded THEN Step(TRUE, <<what, " prompt not found">>, FALSE, NoPrompt, NoStep)
  ELSE LET response == simulateAutomatedCopilotResponse(words \cup templateWords(promptId))
           parsed == parseJsonResponse(response)
           prompt == Prompt(promptId, "", NoExisting, "", "")
       IN IF parsed.ok
          THEN Step(FALSE, <<>>, TRUE, prompt, stepSucceeded(parsed.value, prompt, response))
          ELSE Step(FALSE, <<>>, TRUE, prompt, stepFailedWith(parsed.error, prompt, <<>>))

Ended(res, fs) == [result |-> res, fs |-> fs]

\* the end of executeWorkflow after a write: openFile, which may throw into the catch
automatedOpen(res, fs, opens) ==
  IF opens THEN Ended(res, fs) ELSE Ended(caught(res, <<"cannot open file">>), fs)

\* AutomatedOrchestrationService.executeWorkflow, from start to return
automatedWorkflow(goal, loaded, hasFolders, opens, fs, base) ==
  LET d == automatedStep(loaded, "Directory selection",
                         "orchestration/01-directory-selection", goal)
      r1 == [InitResult EXCEPT !.steps.directorySelection = d.step]
      dir == d.step.data.selectedDirectory
      \* selected_directory is the JSON of the directory selection, reasoning included
      s == automatedStep(loaded, "Content strategy", "orchestration/02-content-strategy",
                         goal \cup {"directory", "pattern"})
      r2 == [r1 EXCEPT !.steps.contentStrategy = s.step]
      p == automatedStep(loaded, "Pattern selection", "orchestration/03-pattern-selection",
                         goal)
      r3 == [r2 EXCEPT !.steps.patternSelection = p.step]
      g == automatedStep(loaded, "Content generation", "orchestration/04-content-generation",
                         goal \cup {"pattern"})
      r4 == [r3 EXCEPT !.steps.contentGeneration = g.step]
      saved == saveContent(fs, base, dir, g.step)
      existing == readFile(fs, base, dir, s.step.data.targetFile)
      u == automatedStep(loaded, "Content update", "orchestration/05-content-update", goal)
      r5 == [r2 EXCEPT !.steps.contentGeneration = u.step]
      written == writeFile(fs, base, dir, s.step.data.targetFile, u.step.data.content)
  IN IF ~hasFolders THEN Ended(caught(InitResult, <<"No workspace folder found">>), fs)
     ELSE IF d.threw THEN Ended(caught(InitResult, d.error), fs)
     ELSE IF stepFailed(d.step)
     THEN Ended(caught(r1, <<"Automated directory selection failed: ">>
                           \o ErrText(d.step.error)), fs)
     ELSE IF stepFailed(s.step)
     THEN Ended(caught(r2, <<"Automated content strategy failed: ">>
                           \o ErrText(s.step.error)), fs)
     ELSE IF s.step.data.action = "CREATE"
     THEN IF stepFailed(p.step)
          THEN Ended(caught(r3, <<"Automated pattern selection failed: ">>
                                \o ErrText(p.step.error)), fs)
          ELSE IF stepFailed(g.step)
          THEN Ended(caught(r4, <<"Automated content generation failed: ">>
                                \o ErrText(g.step.error)), fs)
          ELSE IF saved.threw THEN Ended(caught(r4, saved.error), saved.fs)
          ELSE automatedOpen([r4 EXCEPT !.success = TRUE,
                                        !.filePath = join(dir, g.step.data.filename),
                                        !.action = "CREATED"], saved.fs, opens)
     ELSE IF existing.threw THEN Ended(caught(r2, existing.error), fs)
     ELSE IF stepFailed(u.step)
     THEN Ended(caught(r5, <<"Automated content update failed: ">>
                           \o ErrText(u.step.error)), fs)
     ELSE IF written.threw THEN Ended(caught(r5, written.error), written.fs)
     ELSE automatedOpen([r5 EXCEPT !.success = TRUE,
                                   !.filePath = join(dir, s.step.data.targetFile),
                                   !.action = "UPDATED"], written.fs, opens)

InitAutomated ==
  /\ variant = "automated"
  /\ input \in SUBSET Keywords
  /\ hasWorkspace \in BOOLEAN
  /\ promptsLoaded \in BOOLEAN
  /\ cwdIsRoot \in BOOLEAN
  /\ pc = "start"
  /\ output = NoOutput
  /\ files = InitFiles
  /\ dirs = InitDirs
  /\ result = InitResult
  /\ locals = InitLocals
  /\ calls = <<>>
  /\ rendered = <<>>
  /\ progress = <<>>
  /\ failedAt = ""
  /\ cancelled = FALSE
  /\ waiting = NotWaiting
  /\ sink = ""
  /\ writers = NoWriters
  /\ processedContents = <<>>
  /\ requests = <<>>

\* one run of the automated workflow for the goal in input
AutomatedExecuteWorkflow ==
  /\ variant = "automated" /\ pc = "start"
  /\ \E opens \in BOOLEAN :
       \E o \in {automatedWorkflow(input, promptsLoaded, hasWorkspace, opens, FS,
                                   Cwd(cwdIsRoot))} :
          /\ result' = o.result
          /\ files' = o.fs.files
          /\ dirs' = o.fs.dirs
          /\ pc' = IF o.result.error = <<>> THEN "done" ELSE "failed"
  /\ UNCHANGED <<Setup, locals, calls, rendered, progress, failedAt>>

NextAutomated == AutomatedExecuteWorkflow

SpecAutomated == InitAutomated /\ [][NextAutomated]_vars

\* ------------------------------------------- WorkflowOrchestratorService
\* A workflow definition is a sequence of steps; a step has an id, the ids it
\* depends on (in the order listed), whether it is required and whether its
\* promptId names a loaded prompt.
MaxSteps == 2

StepNames == {"a", "b"}

Dependencies == {<<>>, <<"a">>, <<"b">>, <<"a", "b">>}

WorkflowStep(id, dependsOn, required, prompt) ==
  [id |-> id, dependsOn |-> dependsOn, required |-> required, prompt |-> prompt]

\* the workflow registered by initializeWorkflows: a chain of required steps
techDocWorkflow ==
  << WorkflowStep("analyze", <<>>, TRUE, TRUE),
     WorkflowStep("outline", <<"analyze">>, TRUE, TRUE),
     WorkflowStep("write-intro", <<"outline">>, TRUE, TRUE),
     WorkflowStep("write-main", <<"write-intro">>, TRUE, TRUE),
     WorkflowStep("review", <<"write-main">>, TRUE, TRUE),
     WorkflowStep("finalize", <<"review">>, TRUE, TRUE) >>

CustomSteps ==
  {WorkflowStep(id, d, r, p) : id \in StepNames, d \in Dependencies,
                               r \in BOOLEAN, p \in BOOLEAN}

\* the registered workflow and the definitions addWorkflow accepts
Workflows ==
  {techDocWorkflow} \cup UNION {[1..n -> CustomSteps] : n \in 1..MaxSteps}

Elements(s) == {s[i] : i \in 1..Len(s)}

\* validateWorkflow: the errors of the steps from index i on, stepIds being
\* the ids seen before; the id of a step is added before its dependencies are
\* looked up
RECURSIVE validateFrom(_, _, _)
validateFrom(workflow, i, stepIds) ==
  IF i > Len(workflow) THEN <<>>
  ELSE LET step == workflow[i]
           seen == stepIds \cup {step.id}
           Unknown(dep) == dep \notin seen
           missing == SelectSeq(step.dependsOn, Unknown)
       IN (IF step.id \in stepIds THEN << <<"Duplicate step ID", step.id>> >> ELSE <<>>)
          \o [k \in 1..Len(missing) |->
                <<"depends on non-existent step", step.id, missing[k]>>]
          \o (IF step.prompt THEN <<>>
              ELSE << <<"references non-existent prompt", step.id>> >>)
          \o validateFrom(workflow, i + 1, seen)

validateWorkflow(workflow) ==
  LET errors == validateFrom(workflow, 1, {})
  IN [valid |-> errors = <<>>, errors |-> errors]

\* what the oracle and the onStepComplete callback do in one step
StepOutcomes == {"answers", "rejects", "callback throws"}

\* the context of a run before its first step, and what is known of the definition
NotStarted ==
  [validation |-> "unchecked", currentStep |-> 0, stepOutputs |-> {},
   errors |-> <<>>, log |-> <<>>, success |-> FALSE]

Attempt(index, had, called, error) ==
  [index |-> index, had |-> had, called |-> called, error |-> error]

\* a loop that lets every step through
noneUnsatisfied(step, stepOutputs) == <<>>

\* the dependencies of a step that have no entry in stepOutputs, in order
unsatisfied(step, stepOutputs) ==
  LET Lacking(dep) == dep \notin stepOutputs
  IN SelectSeq(step.dependsOn, Lacking)

\* the body of the loop of executeWorkflow for the next step: dependency
\* check, executeStep (renderPrompt, sendToCopilot), stepOutputs.set, callback
iteration(context, step, outcome) ==
  LET index == context.currentStep + 1
      missing == unsatisfied(step, context.stepOutputs)
      threw == IF missing # <<>> THEN <<"Dependency not satisfied", missing[1]>>
               ELSE IF ~step.prompt THEN <<"Prompt not found", step.id>>
               ELSE IF outcome = "rejects" THEN <<"oracle failed", step.id>>
               ELSE IF outcome = "callback throws" THEN <<"callback failed", step.id>>
               ELSE <<>>
      called == missing = <<>> /\ step.prompt
      stored == called /\ outcome # "rejects"
  IN [context EXCEPT
        !.currentStep = index,
        !.stepOutputs = IF stored THEN @ \cup {step.id} ELSE @,
        !.errors = IF threw = <<>> THEN @
                   ELSE Append(@, <<"Failed to execute step", step.id>> \o threw),
        !.log = Append(@, Attempt(index, context.stepOutputs, called, threw))]

\* the outer catch of executeWorkflow
workflowFailed(context, step) ==
  [context EXCEPT !.errors = Append(@, <<"Workflow execution failed",
                                         "Required step failed", step.id>>),
                  !.success = FALSE]

InitOrchestrator ==
  /\ InitApart
  /\ input \in Workflows
  /\ output = NotStarted
  /\ pc = "defined"

ValidateWorkflow ==
  /\ pc = "defined"
  /\ output.validation = "unchecked"
  /\ output' = [output EXCEPT !.validation =
                  IF validateWorkflow(input).valid THEN "valid" ELSE "invalid"]
  /\ UNCHANGED <<pc, input, Apart>>

\* one turn of the loop of executeWorkflow, up to the next await or the return
ExecuteStep ==
  /\ pc \in {"defined", "running"}
  /\ output.currentStep < Len(input)
  /\ \E outcome \in StepOutcomes :
       \E step \in {input[output.currentStep + 1]} :
         \E after \in {iteration(output, step, outcome)} :
            IF Len(after.errors) > Len(output.errors) /\ step.required
            THEN /\ output' = workflowFailed(after, step)
                 /\ pc' = "returned"
            ELSE IF after.currentStep = Len(input)
            THEN /\ output' = [after EXCEPT !.success = (after.errors = <<>>)]
                 /\ pc' = "returned"
            ELSE /\ output' = after
                 /\ pc' = "running"
  /\ UNCHANGED <<input, Apart>>

NextOrchestrator == ValidateWorkflow \/ ExecuteStep

SpecOrchestrator == InitOrchestrator /\ [][NextOrchestrator]_vars

\* ------------------------------------- extraction of a response that is JSON
\* responses made of braces, whitespace and members, some of them holding a
\* fenced block in their value
MaxObject == 4

ObjectAlphabet == {LB, RB, WS, Member("action", "CREATE"), Member("content", "new"),
                   Block("content", "fenced")}

ObjectTexts == UNION {[1..n -> ObjectAlphabet] : n \in 0..MaxObject}

InitObject ==
  /\ input \in ObjectTexts
  /\ output = NoOutput
  /\ pc = "extract"
  /\ InitApart

SpecObject == InitObject /\ [][NextExtract]_vars

\* ------------------------------------------------ PromptService.renderPrompt
\* A text is a sequence of pieces: plain text, a placeholder {{key}}, or the
\* replacement pattern $& that String.replace expands to the matched text.
MaxTemplate == 3

Text(x) == Tok("text", "", x)
Hole(k) == Tok("hole", k, "")
Matched == Tok("matched", "", "")

VariableKeys == {"existing_content", "new_materials"}

TemplatePieces == {Text("intro")} \cup {Hole(k) : k \in VariableKeys}

Templates == UNION {[1..n -> TemplatePieces] : n \in 0..MaxTemplate}

\* values as a file or an input may hold them
Values == {<<>>, <<Text("old")>>, <<Matched>>} \cup {<<Hole(k)>> : k \in VariableKeys}

Variable(key, value) == [key |-> key, value |-> value]

\* the entries of the variables object, in the order of Object.entries
Entries ==
  {<<Variable(k1, v1), Variable(k2, v2)>> :
     k1 \in VariableKeys, k2 \in VariableKeys, v1 \in Values, v2 \in Values} \cap
  {e \in Seq([key : VariableKeys, value : Values]) : Len(e) = 2 /\ e[1].key # e[2].key}

RECURSIVE Flatten(_)
Flatten(ss) == IF ss = <<>> THEN <<>> ELSE Head(ss) \o Flatten(Tail(ss))

\* what replace() inserts for one match of {{key}}: the value, $& expanded
inserted(key, value) ==
  [i \in 1..Len(value) |-> IF value[i].t = "matched" THEN Hole(key) ELSE value[i]]

\* template.replace(new RegExp('\{\{key\}\}', 'g'), value)
replace(template, key, value) ==
  Flatten([i \in 1..Len(template) |->
             IF template[i].t = "hole" /\ template[i].k = key
             THEN inserted(key, value) ELSE <<template[i]>>])

\* the loop of renderPrompt over the entries, each applied to the text so far
RECURSIVE replaceEach(_, _)
replaceEach(template, entries) ==
  IF entries = <<>> THEN template
  ELSE replaceEach(replace(template, Head(entries).key, Head(entries).value),
                   Tail(entries))

Rendering(threw, text) == [threw |-> threw, text |-> text]

renderPrompt(found, template, variables) ==
  IF ~found THEN Rendering(TRUE, <<>>)
  ELSE Rendering(FALSE, replaceEach(template, variables))

InitRender ==
  /\ input \in [found : BOOLEAN, template : Templates, variables : Entries]
  /\ output = Rendering(FALSE, <<>>)
  /\ pc = "render"
  /\ InitApart

RenderPrompt ==
  /\ pc = "render"
  /\ output' = renderPrompt(input.found, input.template, input.variables)
  /\ pc' = "rendered"
  /\ UNCHANGED <<input, Apart>>

NextRender == RenderPrompt

SpecRender == InitRender /\ [][NextRender]_vars

\* ------------------------------ ContentPatternService.applyPatternToContent
\* A content is a sequence of lines; a heading line carries its title.
MaxLines == 3

\* a first line that becomes a heading once the text is trimmed
Indented == Line(FALSE, "  # References")

ContentLines ==
  {Line(TRUE, t) : t \in {"Overview", "References", "Related Resources", "Notes"}}
  \cup {Line(FALSE, "text"), Indented}

Contents == UNION {[1..n -> ContentLines] : n \in 0..MaxLines}

Titles == {Undefined, "My API"}

\* requiredSections of the default patterns, in their order
sectionList(patternId) ==
  IF patternId = "technical-guide"
  THEN <<"Introduction", "Prerequisites", "Implementation", "Best Practices",
         "Related Resources">>
  ELSE <<"Overview", "Authentication", "Endpoints", "Examples", "Error Handling">>

terminalSections(patternId) ==
  IF patternId = "technical-guide" THEN <<"Related Resources">> ELSE <<"References">>

markdownTemplate(patternId) ==
  <<Line(TRUE, "{{title}}"), Line(FALSE, "{{description}}")>> \o
  (IF patternId = "technical-guide"
   THEN <<Line(TRUE, "Prerequisites"), Line(TRUE, "Implementation"),
          Line(TRUE, "Best Practices"), Line(TRUE, "Related Resources")>>
   ELSE <<Line(TRUE, "Overview"), Line(TRUE, "Authentication"), Line(TRUE, "Endpoints"),
          Line(TRUE, "Examples"), Line(TRUE, "Error Handling"), Line(TRUE, "References")>>)

\* generateFromTemplate with variables that hold a title or nothing
generateFromTemplate(patternId, title) ==
  [i \in 1..Len(markdownTemplate(patternId)) |->
     IF markdownTemplate(patternId)[i] = Line(TRUE, "{{title}}") /\ title # Undefined
     THEN Line(TRUE, title) ELSE markdownTemplate(patternId)[i]]

\* extractHeadings on lines
headings(lines) == {lines[i].text : i \in {j \in 1..Len(lines) : lines[j].heading}}

\* findTerminalSectionIndex: the first heading of the first terminal section found, 0 for none
findTerminalSectionIndex(lines, terminals) ==
  LET at == {i \in 1..Len(lines) : lines[i].heading /\ lines[i].text \in Elements(terminals)}
  IN IF at = {} THEN 0 ELSE Min(at)

ensureRequiredSections(lines, patternId) ==
  LET existingHeadings == headings(lines)
      Lacking(section) == section \notin existingHeadings
      missing == SelectSeq(sectionList(patternId), Lacking)
      sectionsToAdd == Flatten([i \in 1..Len(missing) |->
                                  <<Line(TRUE, missing[i]), Line(FALSE, "[Content]")>>])
      terminalHeadingIndex == findTerminalSectionIndex(lines, terminalSections(patternId))
  IN IF missing = <<>> THEN lines
     ELSE IF terminalHeadingIndex # 0
     THEN SubSeq(lines, 1, terminalHeadingIndex - 1) \o sectionsToAdd
          \o SubSeq(lines, terminalHeadingIndex, Len(lines))
     ELSE lines \o sectionsToAdd

\* applyFormattingGuidelines: blank lines around headings are not part of a
\* sequence of lines; the final trim() turns an indented first line into a heading
applyFormattingGuidelines(lines) ==
  IF lines # <<>> /\ lines[1] = Indented
  THEN <<Line(TRUE, "References")>> \o Tail(lines)
  ELSE lines

\* short: content.trim().length < 100
applyPatternToContent(patternId, lines, short, title) ==
  LET processedContent == IF lines = <<>> \/ short
                          THEN generateFromTemplate(patternId, title) ELSE lines
  IN applyFormattingGuidelines(ensureRequiredSections(processedContent, patternId))

validateContentAgainstPattern(lines, patternId) ==
  LET missing == {section \in Elements(sectionList(patternId)) : section \notin headings(lines)}
      hasTerminalSection == \E section \in Elements(terminalSections(patternId)) :
                               section \in headings(lines)
  IN [valid |-> missing = {} /\ hasTerminalSection, missingRequired |-> missing,
      hasTerminalSection |-> hasTerminalSection]

NotValidated == [valid |-> FALSE, missingRequired |-> {}, hasTerminalSection |-> FALSE]

InitApply ==
  /\ input \in {i \in [pattern : Catalog, content : Contents, short : BOOLEAN, title : Titles] :
                  i.content = <<>> => i.short}
  /\ output = [content |-> <<>>, validation |-> NotValidated]
  /\ pc = "apply"
  /\ InitApart

ApplyPatternToContent ==
  /\ pc = "apply"
  /\ output' = [output EXCEPT !.content =
                  applyPatternToContent(input.pattern, input.content, input.short, input.title)]
  /\ pc' = "applied"
  /\ UNCHANGED <<input, Apart>>

ValidateContentAgainstPattern ==
  /\ pc = "applied"
  /\ output' = [output EXCEPT !.validation =
                  validateContentAgainstPattern(output.content, input.pattern)]
  /\ pc' = "validated"
  /\ UNCHANGED <<input, Apart>>

NextApply == ApplyPatternToContent \/ ValidateContentAgainstPattern

SpecApply == InitApply /\ [][NextApply]_vars

\* ------------------------------------------------------------ properties
FilesystemUnchanged == files = InitFiles /\ dirs = InitDirs

NothingWritten == files = InitFiles

\* the places a run can fail at or before UPDATE_CONTENT / GENERATE_CONTENT
StepFailures == {"prepare", "directory", "strategy", "pattern", "generation", "update"}

\* a step of the run has failed: it threw, or it returned success = false
StepHasFailed ==
  \/ failedAt \in StepFailures
  \/ \E s \in StepIds : result.steps[s].present /\ ~result.steps[s].success

\* the strategy step's output was accepted and handed to the rest of the run
StrategyAccepted == locals.strategy # EmptyObject

AbsentValues == {Undefined, Null, ""}

LaterCalls == {"pattern", "generation", "update"}

Called(ids) == \E i \in 1..Len(calls) : calls[i] \in ids

Rendered(templates) == \E i \in 1..Len(rendered) : rendered[i].template \in templates

\* C1: a run that fails at or before DETERMINE_STRATEGY, SELECT_PATTERN,
\* GENERATE_CONTENT or UPDATE_CONTENT (a step threw or returned success = false)
\* leaves the filesystem as it was: no file or directory is created or modified.
NoPartialWrite == (pc = "failed" /\ StepHasFailed) => FilesystemUnchanged

\* a run whose GENERATE_CONTENT step returned success = false after three
\* successful steps, so that the write was the next thing to do
FailedAtGeneration ==
  /\ pc = "failed" /\ failedAt = "generation"
  /\ result.steps["patternSelection"].success
  /\ result.steps["contentGeneration"].present
  /\ ~result.steps["contentGeneration"].success

TargetExists ==
  /\ locals.directory.selectedDirectory \in DirNames
  /\ locals.strategy.targetFile \in FileNames
  /\ InitFiles[<<Cwd(cwdIsRoot), locals.directory.selectedDirectory,
                 locals.strategy.targetFile>>] # Absent

StrategyWellFormed ==
  /\ locals.strategy.action = "CREATE" => locals.strategy.targetFile \in {Undefined, Null}
  /\ locals.strategy.action = "UPDATE" => TargetExists

\* C3: every accepted strategy output has targetFile absent when action is CREATE
\* and naming an existing file under selectedDirectory when action is UPDATE; a
\* run that accepted any other output writes nothing and does not succeed.
AcceptedStrategyIsWellFormed ==
  (StrategyAccepted /\ ~StrategyWellFormed) => (NothingWritten /\ ~result.success)

\* C4: after a strategy output whose action is neither CREATE nor UPDATE the run
\* makes no further oracle call, writes nothing and does not succeed.
UnknownActionIsFatal ==
  (StrategyAccepted /\ locals.strategy.action \notin {"CREATE", "UPDATE"})
  => (~Called(LaterCalls) /\ NothingWritten /\ ~result.success)

\* the path updateContent read the existing text from
ReadPath ==
  <<Cwd(cwdIsRoot), locals.directory.selectedDirectory, locals.strategy.targetFile>>

\* C5: a run that ends with action UPDATED has changed no file but the one it
\* read as the prompt's existing content, and has created no file.
UpdateWritesTarget ==
  (result.success /\ result.action = "UPDATED")
  => \A p \in DOMAIN files :
       /\ InitFiles[p] = Absent => files[p] = Absent
       /\ files[p] # InitFiles[p] => p = ReadPath

\* C6: a step failure ends the run: the run is in its terminal failed state as
\* soon as a step has thrown or returned success = false, and from then on no
\* prompt is rendered, no oracle call is made and nothing is written.
StepFailureIsTerminal ==
  /\ [](StepHasFailed => pc = "failed")
  /\ [][StepHasFailed => UNCHANGED <<calls, rendered, files, dirs>>]_vars

\* the strategy step returned success = false after a successful directory step
FailedAtStrategy ==
  /\ pc = "failed"
  /\ result.steps["directorySelection"].success
  /\ result.steps["contentStrategy"].present
  /\ ~result.steps["contentStrategy"].success
  /\ calls = <<"directory", "strategy">>

IsPrefix(s, t) == Len(s) <= Len(t) /\ s = SubSeq(t, 1, Len(s))

CreateOrder == <<"directory", "strategy", "pattern", "generation">>
UpdateOrder == <<"directory", "strategy", "update">>

TemplateOf ==
  [c \in {"directory", "strategy", "pattern", "generation", "update"} |->
     IF c = "directory" THEN "orchestration/01-directory-selection"
     ELSE IF c = "strategy" THEN "orchestration/02-content-strategy"
     ELSE IF c = "pattern" THEN "orchestration/03-pattern-selection"
     ELSE IF c = "generation" THEN "orchestration/04-content-generation"
     ELSE "orchestration/05-content-update"]

\* C7: the oracle calls and the rendered prompts of a run follow the program
\* order of one branch, and step N's prompt is rendered and its call issued only
\* when step N-1's StepResult is in the steps map with success = true.
StrictStepOrder ==
  variant = "sequential" =>
    /\ IsPrefix(calls, CreateOrder) \/ IsPrefix(calls, UpdateOrder)
    /\ IsPrefix([i \in 1..Len(rendered) |-> rendered[i].template],
                [i \in 1..Len(CreateOrder) |-> TemplateOf[CreateOrder[i]]])
       \/ IsPrefix([i \in 1..Len(rendered) |-> rendered[i].template],
                   [i \in 1..Len(UpdateOrder) |-> TemplateOf[UpdateOrder[i]]])
    /\ (Called({"strategy"}) \/ Rendered({TemplateOf["strategy"]}))
         => result.steps["directorySelection"].success
    /\ (Called({"pattern", "update"})
          \/ Rendered({TemplateOf["pattern"], TemplateOf["update"]}))
         => result.steps["contentStrategy"].success
    /\ (Called({"generation"}) \/ Rendered({TemplateOf["generation"]}))
         => result.steps["patternSelection"].success

\* the fourth call of the CREATE branch has been issued
GenerationCalled ==
  /\ variant = "sequential"
  /\ calls = CreateOrder
  /\ result.steps["patternSelection"].success

\* C8: the result of a failed run carries an error message and, in its steps map,
\* the successful StepResult, with its data, of every step that succeeded before
\* the failure.
FailureReportsPriorSteps ==
  pc = "failed" =>
    /\ result.error # <<>>
    /\ locals.directory # EmptyObject =>
         (result.steps["directorySelection"].success
            /\ result.steps["directorySelection"].data = locals.directory)
    /\ locals.strategy # EmptyObject =>
         (result.steps["contentStrategy"].success
            /\ result.steps["contentStrategy"].data = locals.strategy)
    /\ locals.pattern # EmptyObject =>
         (result.steps["patternSelection"].success
            /\ result.steps["patternSelection"].data = locals.pattern)

\* C9: a StepResult with success = true carries every required field of its
\* step's schema; a parsed response without one of them gives success = false.
Requires(step, fields) ==
  result.steps[step].success =>
    \A f \in fields : result.steps[step].data[f] # Undefined

SuccessfulStepHasRequiredFields ==
  variant = "sequential" =>
    /\ Requires("directorySelection", {"selectedDirectory"})
    /\ Requires("contentStrategy", {"action"})
    /\ Requires("patternSelection", {"patternId"})
    /\ Requires("contentGeneration", {"content", "filename"})

\* the candidates of the three extraction strategies, in their order: the body of
\* the fenced block, the entire response, the {...} substring
Candidates(s) ==
  (IF FenceMatch(s).found THEN <<FenceMatch(s).group>> ELSE <<>>)
    \o <<s>>
    \o (IF ObjectMatch(s).found THEN <<ObjectMatch(s).group>> ELSE <<>>)

Valid(c) == IsJsonObject(Trim(c))

\* C10: the extractor returns the value of the first candidate, in the order
\* fenced block, entire response, {...} substring, that is valid JSON, and fails
\* only when none of them is.
FirstValidCandidateWins ==
  output.by = "parseJsonResponse" =>
    LET cands == Candidates(input)
        valid == {i \in 1..Len(cands) : Valid(cands[i])}
    IN IF valid = {} THEN ~output.ok
       ELSE output.ok /\ output.value = ObjectOf(Trim(cands[Min(valid)]))

\* a response in which no extraction strategy found JSON ended the run: the
\* Sequential step keeps the response in its StepResult, the chat participant's
\* extractJSON names the case in its error
NoJsonFound ==
  \/ \E s \in StepIds :
        result.steps[s].present /\ ~parseJsonResponse(result.steps[s].response).ok
  \/ (result.error # <<>> /\ Head(result.error) = "Invalid JSON response: ")

NoCallRepeated == \A i, j \in 1..Len(calls) : calls[i] = calls[j] => i = j

\* C11: when no extraction strategy finds parseable JSON in a response, the run
\* has failed, its steps map holds that step's StepResult with success = false
\* and an error message, and no step has asked the oracle twice.
NoJsonIsStepFailure ==
  NoJsonFound =>
    /\ pc = "failed"
    /\ \E s \in StepIds :
         result.steps[s].present /\ ~result.steps[s].success /\ result.steps[s].error # <<>>
    /\ NoCallRepeated

\* C12: a successful CREATE run has made exactly the four oracle calls directory,
\* strategy, pattern, generation, a successful UPDATE run exactly the three calls
\* directory, strategy, update, and any run at most one call per step it reached.
OneCallPerStep ==
  /\ (result.success /\ result.action = "CREATED") => calls = CreateOrder
  /\ (result.success /\ result.action = "UPDATED") => calls = UpdateOrder
  /\ IsPrefix(calls, CreateOrder) \/ IsPrefix(calls, UpdateOrder)
  /\ NoCallRepeated

\* a CREATE run of the chat participant that has written its file
ChatCreateSucceeded ==
  /\ variant = "chat" /\ pc = "done"
  /\ result.success /\ result.action = "CREATED"
  /\ Len(calls) = 4

\* C13: in a run whose strategy action is UPDATE no pattern-selection call is
\* made, no pattern-selection prompt is rendered and the steps map has no
\* patternSelection entry.
UpdateSkipsPattern ==
  (StrategyAccepted /\ locals.strategy.action = "UPDATE") =>
    /\ ~Called({"pattern"})
    /\ ~Rendered({TemplateOf["pattern"]})
    /\ ~result.steps["patternSelection"].present

\* an UPDATE run that went through to its write
UpdateSucceeded ==
  /\ locals.strategy.action = "UPDATE"
  /\ result.success /\ result.action = "UPDATED"
  /\ result.steps["contentGeneration"].success

RunEnded == pc \in {"done", "failed"}

\* { success: false, ..., error }: what a failed run returns
IsFailureResult == ~result.success /\ result.error # <<>>

\* C15: a run that was cancelled does not end in the failed state and does not
\* return a failure result (success = false with an error).
CancelledIsNotFailure ==
  (cancelled /\ RunEnded) => (pc # "failed" /\ ~IsFailureResult)

\* a run is inside writeFile: the file is open and not yet closed
InWrite(r) == writers[r].at \in {"open", "written"}

\* C16: writes to one destination path are serialized: two runs that target the
\* same file are never inside their writes at the same time.
WritesSerialized ==
  \A r1, r2 \in Runs :
    (r1 # r2 /\ writers[r1].name = writers[r2].name) => ~(InWrite(r1) /\ InWrite(r2))

\* C17: the query of every request is built from that request's own content
\* request and its own inputs, whatever the requests before it carried.
RequestsAreIndependent ==
  \A i \in 1..Len(requests) :
    requests[i].query =
      chatQuery(requests[i].contentRequest, processInputs(requests[i].inputs))

\* the location lies under the workspace rootPath
WithinWorkspace(base, dir) == base = "root" /\ dir \notin Escaping

\* C18: no run creates or changes a file or a directory outside the workspace
\* rootPath, and a run whose selectedDirectory resolves outside it does not
\* succeed.
WritesStayInWorkspace ==
  /\ \A p \in DOMAIN files : files[p] # InitFiles[p] => WithinWorkspace(p[1], p[2])
  /\ \A d \in dirs \ InitDirs : WithinWorkspace(d[1], d[2])
  /\ (result.success /\ locals.directory.selectedDirectory \in Escaping) => FALSE

\* the pattern step's output was accepted and handed to content generation
PatternAccepted == locals.pattern # EmptyObject

CreatedContentHasRequiredSections ==
  (result.success /\ result.action = "CREATED" /\ locals.pattern.patternId \in Catalog)
  => missingRequired(result.steps["contentGeneration"].data.content,
                     locals.pattern.patternId) = {}

\* a path anchored at a base is absolute
IsAbsolute(filePath) == filePath # NoPath /\ filePath[1] \in Bases

\* the run has succeeded on the CREATE branch
CreateSucceeded == result.success /\ result.action = "CREATED"

ExistingReadIsBounded ==
  output.by # "none" =>
    /\ Len(output.documents) <= MaxExistingFiles
    /\ \A i \in 1..Len(output.documents) : output.documents[i] <= PreviewLength

\* the base the existing content of the selected directory is read under
ReadBase == IF variant = "chat" THEN "root" ELSE Cwd(cwdIsRoot)

\* the run has gone past its read of a selected directory that does not exist
MissingDirectoryRead ==
  /\ pc \notin {"start", "directory", "strategy"}
  /\ locals.directory # EmptyObject
  /\ IsString(locals.directory.selectedDirectory)
  /\ <<ReadBase, locals.directory.selectedDirectory>> \notin InitDirs

\* what the read of a directory that does not exist hands to the strategy prompt
MissingDirectoryDefault ==
  IF variant = "chat" THEN NoExisting ELSE Existing("Directory does not exist yet", <<>>)

\* C23: when the selected directory does not exist, the read of its existing
\* content does not fail the run: the strategy prompt is rendered with the
\* default for a missing directory and the strategy call is made.
MissingDirectoryContinues ==
  MissingDirectoryRead =>
    /\ Called({"strategy"})
    /\ \E i \in 1..Len(rendered) :
         /\ rendered[i].template = TemplateOf["strategy"]
         /\ rendered[i].dir = locals.directory.selectedDirectory
         /\ rendered[i].existing = MissingDirectoryDefault

\* a sequential run chose a directory that does not exist and went on to create in it
MissingDirectoryCreate ==
  /\ MissingDirectoryRead
  /\ variant = "sequential"
  /\ locals.directory.selectedDirectory = "newdir"
  /\ Called({"strategy"})
  /\ pc = "pattern"

\* the timeouts a caller can supply, in ticks, that run out within MaxWait
Timeouts == 1..(MaxWait - 1)

\* C24: once an oracle call has gone unanswered for longer than the caller's
\* timeout, the step has returned success = false with the error "timeout", the
\* run has failed and nothing was written; no call is awaited beyond the timeout.
OracleTimeoutFailsRun ==
  \A timeout \in Timeouts :
    waiting.elapsed > timeout =>
      /\ pc = "failed"
      /\ \E s \in StepIds :
           /\ result.steps[s].present
           /\ ~result.steps[s].success
           /\ result.steps[s].error = <<"timeout">>
      /\ NothingWritten

\* the stages of the progress callback that belong to an oracle step
StepStages == {StageAt[p] : p \in CallPcs}

\* the step whose oracle call has been sent and has not returned
InFlight(p) == pc = "awaiting" /\ waiting.step = p

\* C25: the progress callbacks of the steps arrive in the order of the oracle
\* calls, one per call, and the callback of a step is delivered only once that
\* step has completed.
ProgressFollowsStep ==
  variant = "sequential" =>
    LET delivered == SelectSeq(progress, LAMBDA stage : stage \in StepStages)
    IN /\ Len(calls) <= Len(delivered)
       /\ \A i \in 1..Len(calls) : delivered[i] = StageAt[calls[i]]
       /\ \A i \in 1..Len(delivered) : \A p \in CallPcs :
            delivered[i] = StageAt[p] => ~InFlight(p)

\* C26: a progress callback that throws does not fail the run: no run ends with
\* the callback's exception as its error.
ThrowingSinkDoesNotFailRun == ~(pc = "failed" /\ result.error = SinkError)

\* the pattern source is missing, unreadable or not parseable
SourceUnusable == ~input.exists \/ ~input.readable \/ ~JSONparse(input.text).ok

\* C27: when the pattern source is missing, unreadable or unparseable, the
\* construction of the pattern service succeeds and its catalog is the built-in
\* defaults, technical-guide and api-docs.
UnusableSourceGivesDefaults ==
  (pc # "construct" /\ SourceUnusable)
  => (~output.threw /\ output.patterns = {"technical-guide", "api-docs"})

\* the service was constructed from a file that is there but does not parse
ConstructedFromUnparseable ==
  /\ pc = "constructed"
  /\ input.exists /\ input.readable
  /\ ~JSONparse(input.text).ok
  /\ input.text # <<>>

\* C28: a run started with no workspace folder fails before any oracle call,
\* with an empty steps map and nothing written, and when it got as far as the
\* repository analysis its error is the no-workspace error.
NoWorkspaceFailsBeforeOracle ==
  (~hasWorkspace /\ pc # "start")
  => /\ pc = "failed"
     /\ ~result.success
     /\ calls = <<>>
     /\ rendered = <<>>
     /\ result.steps = NoSteps
     /\ FilesystemUnchanged
     /\ (failedAt = "prepare" => result.error = <<"No workspace folder found">>)

\* the repository analysis ran with no workspace folder and ended the run
FailedWithoutWorkspace ==
  ~hasWorkspace /\ pc = "failed" /\ failedAt = "prepare" /\ variant = "sequential"

\* the non-content directories of the workspace
NonContent == {"node_modules", ".git"}

\* C29: the walk lists no directory more than 3 levels below the root, and
\* nothing that lies inside a non-content directory (node_modules, .git).
WalkIsBoundedAndSkips ==
  output.by # "none" =>
    \A d \in output.listed :
      /\ d <= maxDepth
      /\ \A above \in 1..(d - 1) : input[above] \notin NonContent

\* C30: every StepResult in the steps map, of a step that succeeded or failed,
\* holds the prompt that was rendered and sent for it and the text the oracle
\* answered with.
StepRetainsPromptAndResponse ==
  \A s \in StepIds :
    result.steps[s].present =>
      /\ \E i \in 1..Len(rendered) : rendered[i] = result.steps[s].prompt
      /\ result.steps[s].response # <<>>

\* C31: with a workspace and its templates, a run of the automated workflow ends
\* successfully for any goal, having selected 'docs', decided CREATE, selected
\* the overview pattern and created docs/automated-documentation.md.
AutomatedRunCreates ==
  (variant = "automated" /\ pc # "start" /\ hasWorkspace /\ promptsLoaded)
  => /\ result.success
     /\ result.action = "CREATED"
     /\ result.steps["directorySelection"].data.selectedDirectory = "docs"
     /\ result.steps["contentStrategy"].data.action = "CREATE"
     /\ result.steps["patternSelection"].data.patternId = "overview"
     /\ result.steps["contentGeneration"].success
     /\ result.filePath = join("docs", "automated-documentation.md")

Orchestrating == pc \in {"defined", "running", "returned"}

Reason(a) == IF a.error = <<>> THEN "" ELSE a.error[1]

Attempts == {output.log[k] : k \in 1..Len(output.log)}

\* C32: a failed step does not end the workflow: when the run has returned
\* after a failure, every step of the workflow has been attempted.
FailedStepDoesNotBreakWorkflow ==
  (Orchestrating /\ pc = "returned" /\ \E a \in Attempts : Reason(a) # "")
  => output.currentStep = Len(input)

\* C34: a workflow that validateWorkflow reports valid has no step failing
\* with 'Dependency not satisfied' in a run whose oracle calls all succeed.
ValidWorkflowNeverLacksDependency ==
  (/\ Orchestrating
   /\ validateWorkflow(input).valid
   /\ \A a \in Attempts : Reason(a) # "oracle failed")
  => \A a \in Attempts : Reason(a) # "Dependency not satisfied"

\* C35: the oracle is called for a step only when every step it depends on
\* had an output at that moment of the run; a step with a dependency lacking
\* one fails with 'Dependency not satisfied' and the oracle is not called.
DependenciesGateExecution ==
  Orchestrating =>
    \A a \in Attempts :
      LET satisfied == Elements(input[a.index].dependsOn) \subseteq a.had
      IN /\ a.called => satisfied
         /\ ~satisfied => (~a.called /\ Reason(a) = "Dependency not satisfied")

\* a second step stopped by a dependency after the first produced its output
DependencyBlockedStep ==
  /\ Orchestrating
  /\ \E a \in Attempts :
       /\ a.index = 2 /\ a.had # {}
       /\ ~a.called /\ Reason(a) = "Dependency not satisfied"

ClosersOfFirst(s) ==
  LET lbs == {i \in 1..Len(s) : s[i].t = "lb"}
  IN IF lbs = {} THEN {}
     ELSE {j \in (Min(lbs) + 1)..Len(s) :
             /\ s[j].t = "rb"
             /\ Depth(s, j) = Depth(s, Min(lbs) - 1)}

FirstBalanced(s) ==
  SubSeq(s, Min({i \in 1..Len(s) : s[i].t = "lb"}), Min(ClosersOfFirst(s)))

BraceStrategyUsed ==
  /\ pc = "extracted"
  /\ ObjectMatch(input).found
  /\ \/ output.by = "parseJsonResponse" /\ ~FenceMatch(input).found /\ ~JSONparse(input).ok
     \/ output.by = "extractJSON" /\ ~FenceMatchNL(input).found

\* C36: when the {...} strategy is the one used, the extractor returns what
\* the first balanced {...} of the response parses to, whatever follows it.
BraceStrategyTakesFirstBalanced ==
  (BraceStrategyUsed /\ ClosersOfFirst(input) # {})
  => /\ output.ok = JSONparse(FirstBalanced(input)).ok
     /\ output.value = JSONparse(FirstBalanced(input)).value

\* C37: a response that is exactly one JSON object, with nothing around it,
\* is returned as that object whatever its string values contain.
WholeObjectIsReturned ==
  (pc = "extracted" /\ IsJsonObject(input))
  => (output.ok /\ output.value = ObjectOf(input))

\* every placeholder of the template replaced by its value, the value untouched
SinglePass(template, entries) ==
  Flatten([i \in 1..Len(template) |->
             IF template[i].t = "hole"
             THEN (CHOOSE e \in Elements(entries) : e.key = template[i].k).value
             ELSE <<template[i]>>])

\* C38: rendering replaces the placeholders of the template in a single pass:
\* text inside a substituted value is left as it is, and the order of the
\* variables makes no difference.
RenderingIsSinglePass ==
  (pc = "rendered" /\ ~output.threw)
  => /\ output.text = SinglePass(input.template, input.variables)
     /\ output.text = replaceEach(input.template,
                                  <<input.variables[2], input.variables[1]>>)

\* C39: a run whose strategy is CREATE leaves every file that existed before
\* it with the content it had, in the sequential and in the chat variant.
CreateNeverReplaces ==
  locals.strategy.action = "CREATE"
  => \A p \in DOMAIN InitFiles : InitFiles[p] # Absent => files[p] = InitFiles[p]

\* C40: what applyPatternToContent returns for a pattern passes
\* validateContentAgainstPattern for that pattern, for every pattern of the
\* catalog and every content.
AppliedContentIsValid ==
  pc = "validated" => output.validation.valid
====
